---- MODULE Spec2Model ----
(***************************************************************************)
(* Candidate session manager: time slots, attendee registration, faculty   *)
(* availability import, dynamic forms and form submissions.                *)
(*                                                                         *)
(* Every HTTP handler is a sequence of database operations; each database  *)
(* operation is one atomic step of a request process, so that requests can *)
(* interleave between their queries (the project runs Django in autocommit *)
(* mode, no handler opens a transaction).  Specification Spec admits one   *)
(* request at a time; SpecConc lets NumProcs requests interleave.          *)
(***************************************************************************)
EXTENDS Integers, Sequences, FiniteSets, TLC

\* Python None / SQL NULL, for ids and times (real ids and times are >= 1).
None == 0
\* A key that a request payload does not carry (dict.get gives None for it).
Absent == -1

(***************************************************************************)
(* Bounds of the model.                                                    *)
(***************************************************************************)
MaxSlotId == 2
MaxAttendeeId == 2
MaxCapacity == 2
MaxTime == 2
MaxFormId == 1
MaxFieldId == 4
MaxOptionId == 3
MaxSubmissionId == 2
MaxImported == 4

Procs == {1, 2}
Users == {1, 2, 3}
Sections == {1}
Times == 1..MaxTime

VARIABLES
    user_type,          \* User.user_type, by user id
    sections,           \* CandidateSection rows, by id
    availabilities,     \* FacultyAvailability rows with their AvailabilityTimeSlots
    time_slots,         \* SessionTimeSlot rows, by id
    attendees,          \* SessionAttendee rows, by id
    next_slot_id,       \* the AUTOINCREMENT sequence of SessionTimeSlot
    next_attendee_id,   \* the AUTOINCREMENT sequence of SessionAttendee
    req,                \* the request each worker is handling, and where it is
    response,           \* the response sent by the step just taken, if it sent one
    is_staff,           \* User.is_staff, by user id
    forms,              \* Form rows, by id
    form_fields,        \* FormField rows, by id
    form_field_options, \* FormFieldOption rows, by id
    submissions,        \* FormSubmission rows, by id
    next_form_id,       \* the AUTOINCREMENT sequences of the four form tables
    next_field_id,
    next_option_id,
    next_submission_id,
    sessions,           \* Session rows, by id
    invitations,        \* AvailabilityInvitation rows, by id
    next_invitation_id, \* the AUTOINCREMENT sequence of AvailabilityInvitation
    outbox              \* ids of the invitations whose mail send_mail delivered

slot_vars == <<time_slots, attendees, next_slot_id, next_attendee_id>>
form_vars == <<is_staff, forms, form_fields, form_field_options, submissions,
               next_form_id, next_field_id, next_option_id, next_submission_id>>
extra_vars == <<sessions, invitations, next_invitation_id, outbox>>
visit_vars == <<user_type, sections, availabilities, slot_vars, req, extra_vars>>
vars == <<user_type, sections, availabilities, time_slots, attendees,
          next_slot_id, next_attendee_id, req, response, form_vars, extra_vars>>

(***************************************************************************)
(* users/models.py                                                         *)
(***************************************************************************)
is_admin(u) == user_type[u] \in {"admin", "superadmin"}

(***************************************************************************)
(* candidate_sessions/models.py: SessionTimeSlot                           *)
(***************************************************************************)
\* self.attendees: the reverse relation of SessionAttendee.time_slot
attendees_of(self) == {a \in DOMAIN attendees : attendees[a].time_slot = self.id}

\* a capacity check that counts every attendee row, of whatever slot
available_slots_all_rows(self) == self.max_attendees - Cardinality(DOMAIN attendees)

available_slots(self) == self.max_attendees - Cardinality(attendees_of(self))

\* a capacity check that is off by one
is_full_off_by_one(self) == available_slots(self) < 0

is_full(self) == available_slots(self) <= 0

(***************************************************************************)
(* Responses and request records                                           *)
(***************************************************************************)
NoResponse == [status |-> 0, error |-> ""]
Resp(status, error) == [status |-> status, error |-> error]

NoObj == [id |-> None, candidate_section |-> None, start_time |-> None,
          end_time |-> None, max_attendees |-> 0]

\* request.data of a form-submission create that has not been read yet
NoData == [form |-> None, answers |-> <<>>, is_completed |-> FALSE]

Idle == [pc |-> "idle", user |-> None, obj |-> NoObj, row |-> None,
         avail |-> None, ids |-> <<>>, todo |-> <<>>, created |-> <<>>,
         pairs |-> <<>>, send_email |-> FALSE, was_created |-> FALSE,
         data |-> NoData, new_role |-> "", staff |-> FALSE]

\* the handler of worker p returns: the response is sent
Reply(p, status, error) ==
    /\ req' = [req EXCEPT ![p] = Idle]
    /\ response' = Resp(status, error)

\* the handler of worker p goes on to its next database operation
Goto(p, r) ==
    /\ req' = [req EXCEPT ![p] = r]
    /\ response' = NoResponse

(***************************************************************************)
(* candidate_sessions/views.py: IsAdminOrFacultyOrSectionOwner             *)
(* data_section is request.data.get('candidate_section').                  *)
(***************************************************************************)
has_object_permission(u, method, data_section, obj) ==
    IF user_type[u] \in {"admin", "superadmin", "faculty"} THEN TRUE
    ELSE IF method = "POST"
         THEN IF data_section \in DOMAIN sections
              THEN sections[data_section].candidate = u
              ELSE FALSE
         ELSE sections[obj.candidate_section].candidate = u

(***************************************************************************)
(* The unique_together = ('time_slot', 'user') constraint of               *)
(* SessionAttendee, and its foreign key to SessionTimeSlot: an INSERT that *)
(* breaks either raises IntegrityError.                                    *)
(***************************************************************************)
\* the table without its unique_together constraint
AttendeeInsertNoUnique(s, u) == s \in DOMAIN time_slots

AttendeeInsertAllowed(s, u) ==
    /\ s \in DOMAIN time_slots
    /\ ~ \E a \in DOMAIN attendees :
            attendees[a].time_slot = s /\ attendees[a].user = u

InsertAttendee(s, u) ==
    /\ attendees' = attendees @@
           (next_attendee_id :> [id |-> next_attendee_id, time_slot |-> s, user |-> u])
    /\ next_attendee_id' = next_attendee_id + 1

(***************************************************************************)
(* SessionTimeSlotViewSet.register                                         *)
(***************************************************************************)
\* a register without the candidate check
RegisterGetObjectNoCandidateCheck(p, u, s, data_section) ==
    /\ req[p].pc = "idle"
    /\ IF s \notin DOMAIN time_slots
       THEN Reply(p, 404, "Not found.")
       ELSE IF ~has_object_permission(u, "POST", data_section, time_slots[s])
       THEN Reply(p, 403, "You do not have permission to perform this action.")
       ELSE Goto(p, [Idle EXCEPT !.pc = "register_is_full", !.user = u,
                                 !.obj = time_slots[s]])
    /\ UNCHANGED <<extra_vars, form_vars, user_type, sections, availabilities, slot_vars>>

\* self.get_object() with its permission check, then the candidate check
RegisterGetObject(p, u, s, data_section) ==
    /\ req[p].pc = "idle"
    /\ IF s \notin DOMAIN time_slots
       THEN Reply(p, 404, "Not found.")
       ELSE IF ~has_object_permission(u, "POST", data_section, time_slots[s])
       THEN Reply(p, 403, "You do not have permission to perform this action.")
       ELSE IF user_type[u] = "candidate"
       THEN Reply(p, 403, "Candidates cannot register for sessions")
       ELSE Goto(p, [Idle EXCEPT !.pc = "register_is_full", !.user = u,
                                 !.obj = time_slots[s]])
    /\ UNCHANGED <<extra_vars, form_vars, user_type, sections, availabilities, slot_vars>>

\* a register that goes on whatever is_full says
RegisterIsFullUnchecked(p) ==
    /\ req[p].pc = "register_is_full"
    /\ Goto(p, [req[p] EXCEPT !.pc = "register_exists"])
    /\ UNCHANGED <<extra_vars, form_vars, user_type, sections, availabilities, slot_vars>>

\* if time_slot.is_full
RegisterIsFull(p) ==
    /\ req[p].pc = "register_is_full"
    /\ IF is_full(req[p].obj)
       THEN Reply(p, 400, "Time slot is full")
       ELSE Goto(p, [req[p] EXCEPT !.pc = "register_exists"])
    /\ UNCHANGED <<extra_vars, form_vars, user_type, sections, availabilities, slot_vars>>

\* a register that does not look for the caller's row
RegisterExistsUnchecked(p) ==
    /\ req[p].pc = "register_exists"
    /\ Goto(p, [req[p] EXCEPT !.pc = "register_create"])
    /\ UNCHANGED <<extra_vars, form_vars, user_type, sections, availabilities, slot_vars>>

\* if SessionAttendee.objects.filter(time_slot=time_slot, user=user).exists()
RegisterExists(p) ==
    /\ req[p].pc = "register_exists"
    /\ IF \E a \in attendees_of(req[p].obj) : attendees[a].user = req[p].user
       THEN Reply(p, 400, "Already registered for this time slot")
       ELSE Goto(p, [req[p] EXCEPT !.pc = "register_create"])
    /\ UNCHANGED <<extra_vars, form_vars, user_type, sections, availabilities, slot_vars>>

\* SessionAttendee.objects.create(time_slot=time_slot, user=user)
RegisterCreate(p) ==
    /\ req[p].pc = "register_create"
    /\ IF AttendeeInsertAllowed(req[p].obj.id, req[p].user)
       THEN /\ InsertAttendee(req[p].obj.id, req[p].user)
            /\ Reply(p, 201, "")
       ELSE /\ Reply(p, 500, "IntegrityError")
            /\ UNCHANGED <<attendees, next_attendee_id>>
    /\ UNCHANGED <<extra_vars, form_vars, user_type, sections, availabilities, time_slots, next_slot_id>>

(***************************************************************************)
(* SessionTimeSlotViewSet.unregister                                       *)
(***************************************************************************)
UnregisterGetObject(p, u, s, data_section) ==
    /\ req[p].pc = "idle"
    /\ IF s \notin DOMAIN time_slots
       THEN Reply(p, 404, "Not found.")
       ELSE IF ~has_object_permission(u, "POST", data_section, time_slots[s])
       THEN Reply(p, 403, "You do not have permission to perform this action.")
       ELSE Goto(p, [Idle EXCEPT !.pc = "unregister_get", !.user = u,
                                 !.obj = time_slots[s]])
    /\ UNCHANGED <<extra_vars, form_vars, user_type, sections, availabilities, slot_vars>>

\* attendee = get_object_or_404(SessionAttendee, time_slot=time_slot, user=user)
UnregisterGet(p) ==
    /\ req[p].pc = "unregister_get"
    /\ LET rows == {a \in attendees_of(req[p].obj) : attendees[a].user = req[p].user}
       IN  IF rows = {}
           THEN Reply(p, 404, "Not found.")
           ELSE IF Cardinality(rows) > 1
           THEN Reply(p, 500, "MultipleObjectsReturned")
           ELSE Goto(p, [req[p] EXCEPT !.pc = "unregister_delete",
                                       !.row = CHOOSE a \in rows : TRUE])
    /\ UNCHANGED <<extra_vars, form_vars, user_type, sections, availabilities, slot_vars>>

\* an unregister that deletes every attendee row of the slot
UnregisterDeleteAllOfSlot(p) ==
    /\ req[p].pc = "unregister_delete"
    /\ attendees' = [a \in DOMAIN attendees \ attendees_of(req[p].obj) |-> attendees[a]]
    /\ Reply(p, 204, "")
    /\ UNCHANGED <<extra_vars, form_vars, user_type, sections, availabilities, time_slots,
                   next_slot_id, next_attendee_id>>

\* attendee.delete(): DELETE ... WHERE id = pk, which removes nothing when the
\* row is already gone
UnregisterDelete(p) ==
    /\ req[p].pc = "unregister_delete"
    /\ attendees' = [a \in DOMAIN attendees \ {req[p].row} |-> attendees[a]]
    /\ Reply(p, 204, "")
    /\ UNCHANGED <<extra_vars, form_vars, user_type, sections, availabilities, time_slots,
                   next_slot_id, next_attendee_id>>

(***************************************************************************)
(* FacultyAvailabilityViewSet.import_slots                                 *)
(***************************************************************************)
InSeq(x, seq) == \E i \in 1..Len(seq) : seq[i] = x

\* FacultyAvailabilityViewSet.get_queryset: faculty see their own submissions
AvailabilityVisible(u, a) ==
    /\ a \in DOMAIN availabilities
    /\ user_type[u] = "faculty" => availabilities[a].faculty = u

\* the admin check, self.get_object() and availability.candidate_section
ImportGetObject(p, u, pk) ==
    /\ req[p].pc = "idle"
    /\ IF ~is_admin(u)
       THEN Reply(p, 403, "Only admins can import faculty availability")
       ELSE IF ~AvailabilityVisible(u, pk)
       THEN Reply(p, 400, "No FacultyAvailability matches the given query.")
       ELSE Goto(p, [Idle EXCEPT
                !.pc = "import_record", !.user = u, !.avail = pk,
                !.ids = sections[availabilities[pk].candidate_section]
                            .imported_availability_ids])
    /\ UNCHANGED <<extra_vars, form_vars, user_type, sections, availabilities, slot_vars>>

\* an import that creates no slots for an availability it has recorded before
ImportRecordSkipImported(p) ==
    /\ req[p].pc = "import_record"
    /\ LET pk == req[p].avail
           sec == availabilities[pk].candidate_section
       IN  IF ~InSeq(pk, req[p].ids)
           THEN /\ sections' = [sections EXCEPT
                       ![sec].imported_availability_ids = Append(req[p].ids, pk)]
                /\ Goto(p, [req[p] EXCEPT !.pc = "import_loop",
                                          !.ids = Append(req[p].ids, pk),
                                          !.todo = availabilities[pk].time_slots])
           ELSE /\ UNCHANGED sections
                /\ Goto(p, [req[p] EXCEPT !.pc = "import_loop", !.todo = <<>>])
    /\ UNCHANGED <<extra_vars, form_vars, user_type, availabilities, slot_vars>>

\* an import that appends the id without looking for it in the list
ImportRecordAlwaysAppend(p) ==
    /\ req[p].pc = "import_record"
    /\ LET pk == req[p].avail
           sec == availabilities[pk].candidate_section
       IN  /\ sections' = [sections EXCEPT
                  ![sec].imported_availability_ids = Append(req[p].ids, pk)]
           /\ Goto(p, [req[p] EXCEPT !.pc = "import_loop",
                                     !.ids = Append(req[p].ids, pk),
                                     !.todo = availabilities[pk].time_slots])
    /\ UNCHANGED <<extra_vars, form_vars, user_type, availabilities, slot_vars>>

\* if int(pk) not in imported_availability_ids: append and save(update_fields);
\* then the query of availability.time_slots.all()
ImportRecord(p) ==
    /\ req[p].pc = "import_record"
    /\ LET pk == req[p].avail
           sec == availabilities[pk].candidate_section
       IN  IF ~InSeq(pk, req[p].ids)
           THEN /\ sections' = [sections EXCEPT
                       ![sec].imported_availability_ids = Append(req[p].ids, pk)]
                /\ Goto(p, [req[p] EXCEPT !.pc = "import_loop",
                                          !.ids = Append(req[p].ids, pk),
                                          !.todo = availabilities[pk].time_slots])
           ELSE /\ UNCHANGED sections
                /\ Goto(p, [req[p] EXCEPT !.pc = "import_loop",
                                          !.todo = availabilities[pk].time_slots])
    /\ UNCHANGED <<extra_vars, form_vars, user_type, availabilities, slot_vars>>

\* new_time_slot = SessionTimeSlot.objects.create(...)
ImportCreateSlot(p) ==
    /\ req[p].pc = "import_loop"
    /\ req[p].todo # <<>>
    /\ LET ts == Head(req[p].todo)
           new == [id |-> next_slot_id,
                   candidate_section |-> availabilities[req[p].avail].candidate_section,
                   start_time |-> ts.start_time,
                   end_time |-> ts.end_time,
                   max_attendees |-> 1]
       IN  /\ time_slots' = time_slots @@ (next_slot_id :> new)
           /\ next_slot_id' = next_slot_id + 1
           /\ Goto(p, [req[p] EXCEPT !.pc = "import_attendee", !.obj = new])
    /\ UNCHANGED <<extra_vars, form_vars, user_type, sections, availabilities, attendees, next_attendee_id>>

\* SessionAttendee.objects.create(time_slot=new_time_slot, user=faculty);
\* an exception ends the request with 400
ImportCreateAttendee(p) ==
    /\ req[p].pc = "import_attendee"
    /\ LET faculty == availabilities[req[p].avail].faculty
       IN  IF AttendeeInsertAllowed(req[p].obj.id, faculty)
           THEN /\ InsertAttendee(req[p].obj.id, faculty)
                /\ Goto(p, [req[p] EXCEPT !.pc = "import_loop",
                                          !.todo = Tail(req[p].todo),
                                          !.created = Append(req[p].created, req[p].obj.id)])
           ELSE /\ Reply(p, 400, "IntegrityError")
                /\ UNCHANGED <<attendees, next_attendee_id>>
    /\ UNCHANGED <<extra_vars, form_vars, user_type, sections, availabilities, time_slots, next_slot_id>>

\* return Response({...}, status=201)
ImportReturn(p) ==
    /\ req[p].pc = "import_loop"
    /\ req[p].todo = <<>>
    /\ Reply(p, 201, "")
    /\ UNCHANGED <<extra_vars, form_vars, user_type, sections, availabilities, slot_vars>>

(***************************************************************************)
(* SessionTimeSlotViewSet update / partial_update through                  *)
(* SessionTimeSlotCreateSerializer.  data is the request payload: a record *)
(* whose fields are Absent when the payload does not carry them.           *)
(***************************************************************************)
Get(data, key) == IF data[key] = Absent THEN None ELSE data[key]

\* SessionTimeSlotCreateSerializer.validate
SlotValidateOk(data) ==
    LET start_time == Get(data, "start_time")
        end_time == Get(data, "end_time")
    IN  ~(start_time # None /\ end_time # None /\ end_time <= start_time)

\* ModelSerializer.update: every key of validated_data overwrites the attribute
SlotApply(obj, data) ==
    [obj EXCEPT
        !.start_time = IF data.start_time = Absent THEN @ ELSE data.start_time,
        !.end_time = IF data.end_time = Absent THEN @ ELSE data.end_time,
        !.max_attendees = IF data.max_attendees = Absent THEN @ ELSE data.max_attendees]

UpdateTimeSlot(p, u, s, partial, data) ==
    /\ req[p].pc = "idle"
    /\ IF s \notin DOMAIN time_slots
       THEN /\ Reply(p, 404, "Not found.")
            /\ UNCHANGED time_slots
       ELSE IF ~has_object_permission(u, IF partial THEN "PATCH" ELSE "PUT",
                                      None, time_slots[s])
       THEN /\ Reply(p, 403, "You do not have permission to perform this action.")
            /\ UNCHANGED time_slots
       ELSE IF ~partial /\ data.start_time = Absent
       THEN /\ Reply(p, 400, "start_time: This field is required.")
            /\ UNCHANGED time_slots
       ELSE IF ~SlotValidateOk(data)
       THEN /\ Reply(p, 400, "end_time: End time must be after start time.")
            /\ UNCHANGED time_slots
       ELSE /\ time_slots' = [time_slots EXCEPT ![s] = SlotApply(@, data)]
            /\ Reply(p, 200, "")
    /\ UNCHANGED <<extra_vars, form_vars, user_type, sections, availabilities, attendees,
                   next_slot_id, next_attendee_id>>

(***************************************************************************)
(* candidate_sessions/models.py: Form, FormField, FormFieldOption          *)
(***************************************************************************)
FIELD_TYPES == {"text", "textarea", "select", "radio", "checkbox", "date", "date_range"}
ChoiceTypes == {"select", "radio", "checkbox"}

\* dict.get(key, default) of a payload, a record that has the keys it carries
DictGet(d, key, default) == IF key \in DOMAIN d THEN d[key] ELSE default

\* Meta.ordering = ['order', 'created_at']; rows are created in id order
OrderedBefore(a, b) == a.order < b.order \/ (a.order = b.order /\ a.id < b.id)

RECURSIVE Ordered(_)
Ordered(rows) ==
    IF rows = {} THEN <<>>
    ELSE LET first == CHOOSE r \in rows : \A o \in rows \ {r} : OrderedBefore(r, o)
         IN  <<first>> \o Ordered(rows \ {first})

\* the four form tables a serializer works on, as one value
FormDb == [form_fields |-> form_fields, form_field_options |-> form_field_options,
           next_field_id |-> next_field_id, next_option_id |-> next_option_id]

FieldIdsOf(db, f) == {i \in DOMAIN db.form_fields : db.form_fields[i].form = f}
OptionIdsOf(db, fid) ==
    {i \in DOMAIN db.form_field_options : db.form_field_options[i].field = fid}

\* form.form_fields.all() and field.options.all()
FieldsOf(db, f) == Ordered({db.form_fields[i] : i \in FieldIdsOf(db, f)})
OptionsOf(db, fid) == Ordered({db.form_field_options[i] : i \in OptionIdsOf(db, fid)})

MapSeq(seq, Op(_)) == [i \in 1..Len(seq) |-> Op(seq[i])]

(***************************************************************************)
(* candidate_sessions/serializers.py: FormFieldOptionSerializer,           *)
(* FormFieldSerializer, FormSerializer                                     *)
(***************************************************************************)
\* what a GET returns
OptionRepresentation(o) == [id |-> o.id, label |-> o.label, order |-> o.order]

FieldRepresentation(db, fl) ==
    [id |-> fl.id, type |-> fl.type, label |-> fl.label, required |-> fl.required,
     order |-> fl.order, options |-> MapSeq(OptionsOf(db, fl.id), OptionRepresentation)]

FormRepresentation(f) ==
    [form_fields |-> [i \in 1..Len(FieldsOf(FormDb, f)) |->
                         FieldRepresentation(FormDb, FieldsOf(FormDb, f)[i])]]

\* to_internal_value: 'id' is in read_only_fields of both nested serializers,
\* so the validated data of a nested row never carries it
DropReadOnly(d) == [k \in DOMAIN d \ {"id"} |-> d[k]]

OptionInternal(o) == DropReadOnly(o)

FieldInternal(fd) ==
    LET d == DropReadOnly(fd)
    IN  IF "options" \in DOMAIN d
        THEN [d EXCEPT !.options = MapSeq(d.options, OptionInternal)]
        ELSE d

\* a validation that lets date_range fields carry options
FieldErrorNoDateRangeRule(data) ==
    IF DictGet(data, "type", "") \in ChoiceTypes /\ DictGet(data, "options", <<>>) = <<>>
    THEN "options: Options are required for " \o DictGet(data, "type", "") \o " type fields"
    ELSE ""

\* FormFieldSerializer.validate: "" when the data are valid
FieldError(data) ==
    LET field_type == DictGet(data, "type", "")
        options == DictGet(data, "options", <<>>)
    IN  IF field_type \in ChoiceTypes
        THEN IF options = <<>>
             THEN "options: Options are required for " \o field_type \o " type fields"
             ELSE ""
        ELSE IF field_type = "date_range"
        THEN IF options # <<>>
             THEN "options: Options are not allowed for date range fields"
             ELSE ""
        ELSE ""

\* the validation errors keyed to options
OptionsErrors ==
    {"options: Options are required for " \o ty \o " type fields" : ty \in ChoiceTypes}
        \cup {"options: Options are not allowed for date range fields"}

\* FormSerializer validation of the nested form_fields list: the first error
FieldsError(fields_data) ==
    IF \E i \in 1..Len(fields_data) : FieldError(FieldInternal(fields_data[i])) # ""
    THEN LET i == CHOOSE j \in 1..Len(fields_data) :
                    /\ FieldError(FieldInternal(fields_data[j])) # ""
                    /\ \A k \in 1..(j - 1) : FieldError(FieldInternal(fields_data[k])) = ""
         IN  FieldError(FieldInternal(fields_data[i]))
    ELSE ""

\* FormFieldOption.objects.create(field=field, **option_data) for each option
RECURSIVE CreateOptions(_, _, _)
CreateOptions(db, fid, options_data) ==
    IF options_data = <<>> THEN db
    ELSE LET o == Head(options_data)
             new == [id |-> db.next_option_id, field |-> fid,
                     label |-> o.label, order |-> o.order]
         IN  CreateOptions([db EXCEPT !.form_field_options = @ @@ (new.id :> new),
                                      !.next_option_id = @ + 1],
                           fid, Tail(options_data))

\* FormField.objects.create(form=form, **field_data)
CreateField(db, f, field_data) ==
    LET new == [id |-> db.next_field_id, form |-> f,
                type |-> DictGet(field_data, "type", ""),
                label |-> DictGet(field_data, "label", ""),
                required |-> DictGet(field_data, "required", FALSE),
                order |-> DictGet(field_data, "order", 0)]
    IN  [db EXCEPT !.form_fields = @ @@ (new.id :> new), !.next_field_id = @ + 1]

\* row.delete(), with the cascade to the options of a field
DeleteOptions(db, ids) ==
    [db EXCEPT !.form_field_options = [i \in DOMAIN @ \ ids |-> @[i]]]

DeleteFields(db, ids) ==
    LET opts == {o \in DOMAIN db.form_field_options : db.form_field_options[o].field \in ids}
    IN  [DeleteOptions(db, opts) EXCEPT !.form_fields = [i \in DOMAIN @ \ ids |-> @[i]]]

\* setattr(instance, attr, value) for the keys of the data; instance.save()
SetAttrs(row, data) ==
    [k \in DOMAIN row |-> IF k \in DOMAIN data /\ k # "id" THEN data[k] ELSE row[k]]

\* FormFieldSerializer.update, the loop over options_data
RECURSIVE UpdateOptionsLoop(_, _, _, _, _)
UpdateOptionsLoop(db, fid, existing_options, options_data, updated_option_ids) ==
    IF options_data = <<>>
    THEN DeleteOptions(db, existing_options \ updated_option_ids)
    ELSE LET option_data == Head(options_data)
             option_id == DictGet(option_data, "id", None)
         IN  IF option_id # None /\ option_id \in existing_options
             THEN UpdateOptionsLoop(
                     [db EXCEPT !.form_field_options[option_id] = SetAttrs(@, option_data)],
                     fid, existing_options, Tail(options_data),
                     updated_option_ids \cup {option_id})
             ELSE UpdateOptionsLoop(CreateOptions(db, fid, <<option_data>>),
                     fid, existing_options, Tail(options_data), updated_option_ids)

\* FormFieldSerializer.update
FieldSerializerUpdate(db, fid, validated_data) ==
    LET options_data == DictGet(validated_data, "options", <<>>)
        attrs == [k \in DOMAIN validated_data \ {"options"} |-> validated_data[k]]
        db1 == [db EXCEPT !.form_fields[fid] = SetAttrs(@, attrs)]
    IN  IF db1.form_fields[fid].type \in ChoiceTypes
        THEN UpdateOptionsLoop(db1, fid, OptionIdsOf(db1, fid), options_data, {})
        ELSE db1

\* FormSerializer.create, the loop over form_fields_data
RECURSIVE CreateFields(_, _, _)
CreateFields(db, f, form_fields_data) ==
    IF form_fields_data = <<>> THEN db
    ELSE LET field_data == Head(form_fields_data)
             options_data == DictGet(field_data, "options", <<>>)
             db1 == CreateField(db, f, field_data)
         IN  CreateFields(CreateOptions(db1, db.next_field_id, options_data),
                          f, Tail(form_fields_data))

\* FormSerializer.update, the loop over form_fields_data and the deletion of
\* the fields that were not updated
RECURSIVE UpdateFieldsLoop(_, _, _, _, _)
UpdateFieldsLoop(db, f, existing_fields, form_fields_data, updated_field_ids) ==
    IF form_fields_data = <<>>
    THEN DeleteFields(db, existing_fields \ updated_field_ids)
    ELSE LET whole == Head(form_fields_data)
             field_id == DictGet(whole, "id", None)
             options_data == DictGet(whole, "options", <<>>)
             \* field_data after field_data.pop('options', [])
             field_data == [k \in DOMAIN whole \ {"options"} |-> whole[k]]
         IN  IF field_id # None /\ field_id \in existing_fields
             THEN \* FormFieldSerializer(field, data=field_data, partial=True)
                  LET nested == FieldInternal(field_data)
                      db1 == IF FieldError(nested) = ""
                             THEN FieldSerializerUpdate(db, field_id, nested)
                             ELSE db
                  IN  UpdateFieldsLoop(db1, f, existing_fields, Tail(form_fields_data),
                                       updated_field_ids \cup {field_id})
             ELSE LET db1 == CreateOptions(CreateField(db, f, field_data),
                                           db.next_field_id, options_data)
                  IN  UpdateFieldsLoop(db1, f, existing_fields, Tail(form_fields_data),
                                       updated_field_ids \cup {db.next_field_id})

\* the nested part of FormSerializer.update on validated data
FormSerializerUpdateFields(db, f, form_fields_data) ==
    UpdateFieldsLoop(db, f, FieldIdsOf(db, f), form_fields_data, {})

StoreFormDb(db) ==
    /\ form_fields' = db.form_fields
    /\ form_field_options' = db.form_field_options
    /\ next_field_id' = db.next_field_id
    /\ next_option_id' = db.next_option_id

\* FormViewSet.get_queryset
FormVisible(u, f) ==
    /\ f \in DOMAIN forms
    /\ is_staff[u] \/ (u \in forms[f].assigned_to /\ forms[f].is_active)

Send(status, error) == response' = Resp(status, error)

(***************************************************************************)
(* FormViewSet.create: POST /forms/                                        *)
(***************************************************************************)
FormCreate(u, data) ==
    /\ UNCHANGED visit_vars
    /\ LET fields_data == DictGet(data, "form_fields", <<>>)
           validated == MapSeq(fields_data, FieldInternal)
       IN  IF FieldsError(fields_data) # ""
           THEN /\ Send(400, FieldsError(fields_data))
                /\ UNCHANGED form_vars
           ELSE /\ forms' = forms @@ (next_form_id :>
                       [id |-> next_form_id, created_by |-> u,
                        assigned_to |-> DictGet(data, "assigned_to_ids", {}),
                        is_active |-> DictGet(data, "is_active", TRUE)])
                /\ next_form_id' = next_form_id + 1
                /\ StoreFormDb(CreateFields(FormDb, next_form_id, validated))
                /\ Send(201, "")
                /\ UNCHANGED <<is_staff, submissions, next_submission_id>>

(***************************************************************************)
(* FormViewSet.update / partial_update: PUT or PATCH /forms/{id}/          *)
(***************************************************************************)
FormUpdate(u, f, data) ==
    /\ UNCHANGED visit_vars
    /\ LET fields_data == DictGet(data, "form_fields", <<>>)
           validated == MapSeq(fields_data, FieldInternal)
       IN  IF ~FormVisible(u, f)
           THEN /\ Send(404, "Not found.")
                /\ UNCHANGED form_vars
           ELSE IF FieldsError(fields_data) # ""
           THEN /\ Send(400, FieldsError(fields_data))
                /\ UNCHANGED form_vars
           ELSE /\ StoreFormDb(FormSerializerUpdateFields(FormDb, f, validated))
                /\ forms' = [forms EXCEPT
                       ![f].assigned_to = DictGet(data, "assigned_to_ids", @),
                       ![f].is_active = DictGet(data, "is_active", @)]
                /\ Send(200, "")
                /\ UNCHANGED <<is_staff, submissions, next_form_id, next_submission_id>>

(***************************************************************************)
(* candidate_sessions/models.py: FormSubmission                            *)
(* answers is a JSON object: a function from field ids written as strings  *)
(* to answer values.  form_version is {} (has_fields = FALSE) or           *)
(* {'fields': {...}}, whose entries keep the order they were inserted in.  *)
(***************************************************************************)
Text(s) == [is_dict |-> FALSE, text |-> s, startDate |-> "", endDate |-> ""]
DateRange(a, b) == [is_dict |-> TRUE, text |-> "", startDate |-> a, endDate |-> b]

\* Python truth of an answer value
Truthy(v) == v.is_dict \/ v.text # ""

\* datetime.strptime(s, '%Y-%m-%d') of the dates of the model: the day number,
\* or None when strptime raises ValueError
ParseDate(s) ==
    IF s = "2024-06-01" THEN 1 ELSE IF s = "2024-06-05" THEN 5 ELSE None

EmptyVersion == [has_fields |-> FALSE, fields |-> <<>>]

\* the dict comprehension of FormSubmission.save
FieldSnapshot(fl) ==
    [key |-> ToString(fl.id), type |-> fl.type, label |-> fl.label,
     required |-> fl.required]

\* a save that takes the snapshot again every time
SaveSnapshotAlways(sub) ==
    [sub EXCEPT !.form_version =
        [has_fields |-> TRUE, fields |-> MapSeq(FieldsOf(FormDb, sub.form), FieldSnapshot)]]

\* FormSubmission.save: the row as it is written
FormSubmissionSave(sub) ==
    IF ~sub.form_version.has_fields
    THEN [sub EXCEPT !.form_version =
            [has_fields |-> TRUE,
             fields |-> MapSeq(FieldsOf(FormDb, sub.form), FieldSnapshot)]]
    ELSE sub

(***************************************************************************)
(* candidate_sessions/serializers.py: FormSubmissionSerializer             *)
(***************************************************************************)
\* the checks validate_answers makes for one field
AnswerError(fl, value) ==
    IF ~fl.required THEN Resp(0, "")
    ELSE IF ToString(fl.id) \notin DOMAIN value \/ ~Truthy(value[ToString(fl.id)])
    THEN Resp(400, fl.label \o " is required")
    ELSE IF fl.type # "date_range" THEN Resp(0, "")
    ELSE LET field_value == value[ToString(fl.id)]
         IN  IF ~field_value.is_dict
             THEN Resp(400, fl.label \o " must be a date range")
             ELSE IF field_value.startDate = "" \/ field_value.endDate = ""
             THEN Resp(400, fl.label \o " must have both start and end dates")
             ELSE IF ParseDate(field_value.startDate) = None
                     \/ ParseDate(field_value.endDate) = None
             THEN Resp(500, "ValueError")
             ELSE IF ParseDate(field_value.startDate) > ParseDate(field_value.endDate)
             THEN Resp(400, fl.label \o " start date must be before end date")
             ELSE Resp(0, "")

\* validate_answers: the first failing field ends the validation;
\* status 0 when the answers are valid
validate_answers(f, value) ==
    LET fields == FieldsOf(FormDb, f)
        bad == {i \in 1..Len(fields) : AnswerError(fields[i], value).status # 0}
    IN  IF f \notin DOMAIN forms
        THEN Resp(400, "Form is required for validation")
        ELSE IF bad = {} THEN Resp(0, "")
        ELSE AnswerError(fields[CHOOSE i \in bad : \A j \in bad : i <= j], value)

\* a duplicate check that filters on is_completed=False
HasCompletedInverted(u, f) ==
    \E s \in DOMAIN submissions :
        /\ submissions[s].form = f
        /\ submissions[s].submitted_by = u
        /\ ~submissions[s].is_completed

HasCompleted(u, f) ==
    \E s \in DOMAIN submissions :
        /\ submissions[s].form = f
        /\ submissions[s].submitted_by = u
        /\ submissions[s].is_completed

\* to_representation: the answers as a GET presents them
PresentedAnswers(instance) ==
    IF ~instance.form_version.has_fields THEN instance.answers
    ELSE LET orig == instance.form_version.fields
             current == FieldsOf(FormDb, instance.form)
             Matches(fl) == {i \in 1..Len(orig) :
                                orig[i].label = fl.label /\ orig[i].type = fl.type}
             \* the first original field that matches: the loop breaks there
             OrigId(fl) == orig[CHOOSE i \in Matches(fl) : \A j \in Matches(fl) : i <= j].key
             mapped == {i \in 1..Len(current) : Matches(current[i]) # {}}
             kept == {i \in mapped : OrigId(current[i]) \in DOMAIN instance.answers}
         IN  [k \in {ToString(current[i].id) : i \in kept} |->
                 LET i == CHOOSE j \in kept : ToString(current[j].id) = k
                 IN  instance.answers[OrigId(current[i])]]

\* FormSubmissionViewSet.get_queryset
SubmissionVisible(u, s) ==
    /\ s \in DOMAIN submissions
    /\ is_staff[u] \/ submissions[s].submitted_by = u

(***************************************************************************)
(* FormSubmissionViewSet.create: POST /form-submissions/                   *)
(* data carries form, answers and possibly is_completed.                   *)
(***************************************************************************)
\* a create that does not look at the form's assigned users
SubmissionCreateUnassigned(u, data) ==
    /\ UNCHANGED visit_vars
    /\ LET f == data.form
           checked == validate_answers(f, data.answers)
       IN  IF f \notin DOMAIN forms
           THEN /\ Send(400, "form: Invalid pk - object does not exist.")
                /\ UNCHANGED form_vars
           ELSE IF checked.status # 0
           THEN /\ Send(checked.status, checked.error)
                /\ UNCHANGED form_vars
           ELSE IF HasCompleted(u, f)
           THEN /\ Send(400, "You have already submitted this form")
                /\ UNCHANGED form_vars
           ELSE /\ submissions' = submissions @@ (next_submission_id :>
                       FormSubmissionSave(
                           [id |-> next_submission_id, form |-> f, submitted_by |-> u,
                            answers |-> data.answers,
                            is_completed |-> DictGet(data, "is_completed", FALSE),
                            form_version |-> EmptyVersion]))
                /\ next_submission_id' = next_submission_id + 1
                /\ Send(201, "")
                /\ UNCHANGED <<is_staff, forms, form_fields, form_field_options,
                               next_form_id, next_field_id, next_option_id>>

\* FormSubmissionViewSet.create: is_valid(), perform_create, serializer.create
SubmissionCreate(u, data) ==
    /\ UNCHANGED visit_vars
    /\ LET f == data.form
           checked == validate_answers(f, data.answers)
       IN  IF f \notin DOMAIN forms
           THEN /\ Send(400, "form: Invalid pk - object does not exist.")
                /\ UNCHANGED form_vars
           ELSE IF checked.status # 0
           THEN /\ Send(checked.status, checked.error)
                /\ UNCHANGED form_vars
           ELSE IF u \notin forms[f].assigned_to
           THEN /\ Send(400, "You are not assigned to this form")
                /\ UNCHANGED form_vars
           ELSE IF HasCompleted(u, f)
           THEN /\ Send(400, "You have already submitted this form")
                /\ UNCHANGED form_vars
           ELSE /\ submissions' = submissions @@ (next_submission_id :>
                       FormSubmissionSave(
                           [id |-> next_submission_id, form |-> f, submitted_by |-> u,
                            answers |-> data.answers,
                            is_completed |-> DictGet(data, "is_completed", FALSE),
                            form_version |-> EmptyVersion]))
                /\ next_submission_id' = next_submission_id + 1
                /\ Send(201, "")
                /\ UNCHANGED <<is_staff, forms, form_fields, form_field_options,
                               next_form_id, next_field_id, next_option_id>>

(***************************************************************************)
(* FormSubmissionViewSet.update / partial_update:                          *)
(* PUT or PATCH /form-submissions/{id}/                                    *)
(***************************************************************************)
SubmissionUpdate(u, s, partial, data) ==
    /\ UNCHANGED visit_vars
    /\ LET f == DictGet(data, "form", None)
           checked == IF "answers" \in DOMAIN data
                      THEN validate_answers(f, data.answers)
                      ELSE Resp(0, "")
       IN  IF ~SubmissionVisible(u, s)
           THEN /\ Send(404, "Not found.")
                /\ UNCHANGED form_vars
           ELSE IF ~partial /\ ~({"form", "answers"} \subseteq DOMAIN data)
           THEN /\ Send(400, "This field is required.")
                /\ UNCHANGED form_vars
           ELSE IF "form" \in DOMAIN data /\ f \notin DOMAIN forms
           THEN /\ Send(400, "form: Invalid pk - object does not exist.")
                /\ UNCHANGED form_vars
           ELSE IF checked.status # 0
           THEN /\ Send(checked.status, checked.error)
                /\ UNCHANGED form_vars
           ELSE /\ submissions' = [submissions EXCEPT ![s] =
                       FormSubmissionSave(SetAttrs(@, data))]
                /\ Send(200, "")
                /\ UNCHANGED <<is_staff, forms, form_fields, form_field_options,
                               next_form_id, next_field_id, next_option_id,
                               next_submission_id>>

(***************************************************************************)
(* Initial state: one session with one section of candidate 3 with one     *)
(* time slot, and two faculty availability submissions for it that are not *)
(* imported yet.  User 4 is the superadmin made by create_superuser.       *)
(***************************************************************************)
InitSlots ==
    /\ user_type = (1 :> "faculty" @@ 2 :> "admin" @@ 3 :> "candidate"
                     @@ 4 :> "superadmin")
    /\ sessions = (1 :> [id |-> 1, start_date |-> 2, end_date |-> 2,
                         created_by |-> 2])
    /\ invitations = <<>>
    /\ next_invitation_id = 1
    /\ outbox = {}
    /\ sections = (1 :> [id |-> 1, session |-> 1, candidate |-> 3,
                         imported_availability_ids |-> <<>>])
    /\ availabilities =
          (1 :> [id |-> 1, faculty |-> 1, candidate_section |-> 1, notes |-> "",
                 time_slots |-> <<[start_time |-> 1, end_time |-> 2]>>]
        @@ 2 :> [id |-> 2, faculty |-> 2, candidate_section |-> 1, notes |-> "",
                 time_slots |-> <<[start_time |-> 1, end_time |-> 2],
                                  [start_time |-> 2, end_time |-> 1]>>])
    /\ \E m \in 1..MaxCapacity :
          time_slots = (1 :> [id |-> 1, candidate_section |-> 1, start_time |-> 1,
                              end_time |-> 2, max_attendees |-> m])
    /\ attendees = <<>>
    /\ next_slot_id = 2
    /\ next_attendee_id = 1
    /\ req = [p \in Procs |-> Idle]
    /\ response = NoResponse

\* no form yet; users 2 and 4 are staff
InitForms ==
    /\ is_staff = (1 :> FALSE @@ 2 :> TRUE @@ 3 :> FALSE @@ 4 :> TRUE)
    /\ forms = <<>>
    /\ form_fields = <<>>
    /\ form_field_options = <<>>
    /\ submissions = <<>>
    /\ next_form_id = 1
    /\ next_field_id = 1
    /\ next_option_id = 1
    /\ next_submission_id = 1

Init == InitSlots /\ InitForms

SlotIds == 1..MaxSlotId
DataSections == {None} \cup Sections
CapacityPayloads ==
    {[start_time |-> Absent, end_time |-> Absent, max_attendees |-> m] :
        m \in 0..MaxCapacity}

\* the id sequences stay within the bounds of the model: an INSERT is taken
\* while an id is left, and an import is admitted while the ids it needs are
SlotIdsLeft(n) == next_slot_id + n - 1 <= MaxSlotId
AttendeeIdsLeft(n) == next_attendee_id + n - 1 <= MaxAttendeeId

RegisterRequest(p) ==
    \E u \in Users, s \in SlotIds, ds \in DataSections : RegisterGetObject(p, u, s, ds)

UnregisterRequest(p) ==
    \E u \in Users, s \in SlotIds, ds \in DataSections : UnregisterGetObject(p, u, s, ds)

ImportRequest(p) ==
    \E u \in Users, pk \in 1..3 :
        /\ pk \in DOMAIN availabilities =>
              /\ SlotIdsLeft(Len(availabilities[pk].time_slots))
              /\ AttendeeIdsLeft(Len(availabilities[pk].time_slots))
        /\ ImportGetObject(p, u, pk)

UpdateCapacityRequest(p) ==
    \E u \in Users, s \in SlotIds, data \in CapacityPayloads :
        UpdateTimeSlot(p, u, s, TRUE, data)

\* worker p runs the next database operation of its request
SlotStep(p) ==
    \/ RegisterIsFull(p)
    \/ RegisterExists(p)
    \/ AttendeeIdsLeft(1) /\ RegisterCreate(p)
    \/ UnregisterGet(p)
    \/ UnregisterDelete(p)
    \/ ImportRecord(p)
    \/ SlotIdsLeft(1) /\ ImportCreateSlot(p)
    \/ AttendeeIdsLeft(1) /\ ImportCreateAttendee(p)
    \/ ImportReturn(p)

\* requests processed one at a time: a single worker
Next ==
    \/ RegisterRequest(1)
    \/ UnregisterRequest(1)
    \/ ImportRequest(1)
    \/ UpdateCapacityRequest(1)
    \/ SlotStep(1)

Spec == Init /\ [][Next]_vars

\* the requests of the workers interleave between their database operations
NextConc ==
    \E p \in Procs :
        \/ RegisterRequest(p)
        \/ UnregisterRequest(p)
        \/ ImportRequest(p)
        \/ SlotStep(p)

SpecConc == Init /\ [][NextConc]_vars

(***************************************************************************)
(* Claims about time slots and attendees                                   *)
(***************************************************************************)
NumAttendees(s) == Cardinality({a \in DOMAIN attendees : attendees[a].time_slot = s})

C2_AttendeeUnique ==
    \A a, b \in DOMAIN attendees :
        (attendees[a].time_slot = attendees[b].time_slot
            /\ attendees[a].user = attendees[b].user) => a = b

\* two register requests of one user on one slot both passed the duplicate
\* check; the first has inserted its row and the second is about to insert
C2_Witness ==
    \E p, q \in Procs :
        /\ p # q
        /\ req[p].pc = "register_create"
        /\ req[q].pc = "idle"
        /\ \E a \in DOMAIN attendees :
              /\ attendees[a].time_slot = req[p].obj.id
              /\ attendees[a].user = req[p].user

\* C3: for every time slot, available_slots is max_attendees minus the number
\* of its attendee rows, and is_full holds exactly when that is <= 0.
C3_AvailableSlots ==
    \A s \in DOMAIN time_slots :
        /\ available_slots(time_slots[s]) = time_slots[s].max_attendees - NumAttendees(s)
        /\ is_full(time_slots[s]) <=> (time_slots[s].max_attendees - NumAttendees(s) <= 0)

\* a slot holds more attendee rows than its (lowered) capacity while another
\* slot holds a row too
C3_Witness ==
    \E s, t \in DOMAIN time_slots :
        /\ s # t
        /\ NumAttendees(s) > time_slots[s].max_attendees
        /\ NumAttendees(s) > 0
        /\ NumAttendees(t) > 0

(***************************************************************************)
(* Requests on forms and submissions.  The id sequences stay within the    *)
(* bounds of the model: a request is admitted when the rows it inserts     *)
(* leave every sequence within its bound.                                  *)
(***************************************************************************)
FormIdsLeft ==
    /\ next_form_id' <= MaxFormId + 1
    /\ next_field_id' <= MaxFieldId + 1
    /\ next_option_id' <= MaxOptionId + 1
    /\ next_submission_id' <= MaxSubmissionId + 1

FormIds == 1..MaxFormId
SubmissionIds == 1..MaxSubmissionId
Labels == {"A", "B"}
PayloadLens == {0, 1, 2}
SeqsOver(S) == UNION {[1..k -> S] : k \in PayloadLens}

\* field payloads of the forms that submissions are made for
TextField(l) == [type |-> "text", label |-> l, required |-> FALSE, order |-> 0]
RequiredField(ty) == [type |-> ty, label |-> "A", required |-> TRUE, order |-> 0]

\* the values a client enters for a field of the given type
AnswerValues(type) ==
    IF type = "date_range"
    THEN {DateRange("2024-06-01", "2024-06-05"), DateRange("2024-06-05", "x")}
    ELSE {Text("a"), Text("b")}

\* answers keyed by the current field ids of form f, each field answered or not
AnswerPayloads(f) ==
    LET fields == FieldsOf(FormDb, f)
        keys == {ToString(fields[i].id) : i \in 1..Len(fields)}
        TypeOf(k) == (CHOOSE i \in 1..Len(fields) : ToString(fields[i].id) = k)
        Values(k) == AnswerValues(fields[TypeOf(k)].type)
    IN  UNION {{a \in [ks -> UNION {Values(k) : k \in ks}] :
                    \A k \in ks : a[k] \in Values(k)} : ks \in SUBSET keys}

SubmissionPayloads ==
    UNION {UNION {{[form |-> f, answers |-> a],
                   [form |-> f, answers |-> a, is_completed |-> TRUE]} :
                       a \in AnswerPayloads(f)} : f \in FormIds}
        \cup {[is_completed |-> b] : b \in BOOLEAN}

SubmissionUsers == {1, 3}

SubmissionCreateRequest ==
    \E u \in SubmissionUsers, data \in SubmissionPayloads :
        /\ "form" \in DOMAIN data
        /\ SubmissionCreate(u, data)
        /\ FormIdsLeft

SubmissionUpdateRequest ==
    \E u \in SubmissionUsers, s \in SubmissionIds, partial \in BOOLEAN,
       data \in SubmissionPayloads :
        SubmissionUpdate(u, s, partial, data)

\* the time slot of the initial state has room for one attendee
InitOneSeat == Init /\ time_slots[1].max_attendees = 1

(***************************************************************************)
(* Submissions of a form with one required field: the form is created      *)
(* assigned to user 3, and an update changes the assignment only (its      *)
(* payload carries no form_fields).                                        *)
(***************************************************************************)
AssignedFormPayloads ==
    {[form_fields |-> <<RequiredField(ty)>>, assigned_to_ids |-> {3}] :
        ty \in {"text", "date_range"}}

AssignmentPayloads == {[assigned_to_ids |-> a] : a \in {{}, {3}}}

AssignedFormCreateRequest ==
    \E data \in AssignedFormPayloads : FormCreate(2, data) /\ FormIdsLeft

AssignmentUpdateRequest ==
    \E f \in FormIds, data \in AssignmentPayloads : FormUpdate(2, f, data)

NextSubs ==
    \/ AssignedFormCreateRequest
    \/ AssignmentUpdateRequest
    \/ SubmissionCreateRequest
    \/ SubmissionUpdateRequest

SpecSubs == InitOneSeat /\ [][NextSubs]_vars

(***************************************************************************)
(* One submission followed through the changes of its form: fields are     *)
(* added, renamed, retyped and deleted by form updates.                    *)
(***************************************************************************)
VersionFieldPayloads == {TextField(l) : l \in Labels} \cup {RequiredField("date_range")}

VersionFormPayloads ==
    {[form_fields |-> s, assigned_to_ids |-> {3}] : s \in SeqsOver(VersionFieldPayloads)}

VersionFormCreateRequest ==
    \E data \in VersionFormPayloads : FormCreate(2, data) /\ FormIdsLeft

VersionFormUpdateRequest ==
    \E f \in FormIds, data \in VersionFormPayloads : FormUpdate(2, f, data) /\ FormIdsLeft

FirstSubmissionCreateRequest ==
    \E data \in SubmissionPayloads :
        /\ "form" \in DOMAIN data
        /\ submissions = <<>>
        /\ SubmissionCreate(3, data)

NextVersions ==
    \/ VersionFormCreateRequest
    \/ VersionFormUpdateRequest
    \/ FirstSubmissionCreateRequest
    \/ SubmissionUpdateRequest

SpecVersions == InitOneSeat /\ [][NextVersions]_vars

(***************************************************************************)
(* Forms edited by a staff user: fields of a text, a choice and the         *)
(* date_range type, with and without options; an update payload lists new  *)
(* fields and fields of the representation it fetched, by id.              *)
(***************************************************************************)
NewOptions == <<[label |-> "x", order |-> 0], [label |-> "y", order |-> 1]>>
NewOptionLists == {SubSeq(NewOptions, 1, n) : n \in {0, 1}}

NewFieldPayloads ==
    {[type |-> ty, label |-> l, required |-> FALSE, order |-> 0, options |-> os] :
        ty \in {"text", "select", "date_range"}, l \in Labels, os \in NewOptionLists}

\* a fetched field sent back: unchanged, renamed, or with its first option
\* kept by id and a new option added
Resubmitted(rep) ==
    {rep,
     [rep EXCEPT !.label = IF @ = "A" THEN "B" ELSE "A"],
     [rep EXCEPT !.options = IF @ = <<>> THEN @ ELSE <<@[1], NewOptions[2]>>]}

FieldPayloads(f) ==
    NewFieldPayloads
        \cup UNION {Resubmitted(FieldRepresentation(FormDb, form_fields[i])) :
                        i \in FieldIdsOf(FormDb, f)}

FormCreatePayloads == {[form_fields |-> s] : s \in SeqsOver(NewFieldPayloads)}
FormUpdatePayloads(f) == {[form_fields |-> s] : s \in SeqsOver(FieldPayloads(f))}

FormCreateRequest ==
    /\ next_form_id <= MaxFormId
    /\ \E data \in FormCreatePayloads : FormCreate(2, data) /\ FormIdsLeft

FormUpdateRequest ==
    \E f \in FormIds :
        \E data \in FormUpdatePayloads(f) : FormUpdate(2, f, data) /\ FormIdsLeft

NextForms ==
    \/ FormCreateRequest
    \/ FormUpdateRequest

SpecForms == InitOneSeat /\ [][NextForms]_vars

(***************************************************************************)
(* Claims about form submissions                                           *)
(***************************************************************************)
CompletedOf(u, f) ==
    {s \in DOMAIN submissions : /\ submissions[s].form = f
                                /\ submissions[s].submitted_by = u
                                /\ submissions[s].is_completed}

\* C4: in every reachable state each (form, user) pair has at most one
\* FormSubmission with is_completed = true, after any sequence of submission
\* create, update and partial-update requests processed one at a time.
C4_OneCompletedSubmission ==
    \A f \in DOMAIN forms, u \in Users : Cardinality(CompletedOf(u, f)) <= 1

\* a submission create request of a user who has a completed submission of
\* the form
DuplicateCreate(u, data) ==
    /\ "form" \in DOMAIN data
    /\ data.form \in DOMAIN forms
    /\ CompletedOf(u, data.form) # {}
    /\ SubmissionCreate(u, data)

\* C5 as stated: a submission create request by a user who already has a
\* completed submission for that form is rejected with the 400 error 'You have
\* already submitted this form' and adds no FormSubmission row.
C5_DuplicateCreateRejected ==
    [][\A u \in SubmissionUsers, data \in SubmissionPayloads :
          DuplicateCreate(u, data)
              => /\ response' = Resp(400, "You have already submitted this form")
                 /\ submissions' = submissions
      ]_vars

\* C5 amended: such a request adds no FormSubmission row and is answered with
\* an error; the error is the 400 'You have already submitted this form' when
\* the answers pass validation and the user is still assigned to the form.
C5_DuplicateCreateAddsNoRow ==
    [][\A u \in SubmissionUsers, data \in SubmissionPayloads :
          DuplicateCreate(u, data)
              => /\ submissions' = submissions
                 /\ response'.status \in {400, 500}
                 /\ (/\ validate_answers(data.form, data.answers).status = 0
                     /\ u \in forms[data.form].assigned_to)
                    => response' = Resp(400, "You have already submitted this form")
      ]_vars

\* a create request has just been refused as a duplicate while the user holds
\* a completed submission and a draft of the form
C5_Witness ==
    /\ response = Resp(400, "You have already submitted this form")
    /\ \E f \in DOMAIN forms :
          /\ CompletedOf(3, f) # {}
          /\ \E s \in DOMAIN submissions : ~submissions[s].is_completed

\* the keys of a stored form_version
VersionKeys(v) == {v.fields[i].key : i \in 1..Len(v.fields)}

\* v is the map field-id -> {type, label, required} of the fields of form f
IsSnapshotOf(v, f) ==
    /\ v.has_fields
    /\ Len(v.fields) = Cardinality(FieldIdsOf(FormDb, f))
    /\ VersionKeys(v) = {ToString(i) : i \in FieldIdsOf(FormDb, f)}
    /\ \A k \in 1..Len(v.fields) : \A i \in FieldIdsOf(FormDb, f) :
          v.fields[k].key = ToString(i)
              => /\ v.fields[k].type = form_fields[i].type
                 /\ v.fields[k].label = form_fields[i].label
                 /\ v.fields[k].required = form_fields[i].required

\* C6: the step that first saves a submission sets its form_version to the
\* map field-id -> {type, label, required} of the form's fields at that
\* moment, and no later step (form update or submission update) changes it.
C6_FormVersionFrozen ==
    [][\A s \in DOMAIN submissions' :
          IF s \in DOMAIN submissions
          THEN submissions'[s].form_version = submissions[s].form_version
          ELSE /\ form_fields' = form_fields
               /\ IsSnapshotOf(submissions'[s].form_version, submissions'[s].form)
      ]_vars

\* a submission was updated after its form changed: its answers are keyed by
\* field ids that its form_version does not know
C6_Witness ==
    \E s \in DOMAIN submissions :
        /\ DOMAIN submissions[s].answers # {}
        /\ DOMAIN submissions[s].answers \cap VersionKeys(submissions[s].form_version) = {}
        /\ submissions[s].form_version.fields # <<>>
        /\ ~IsSnapshotOf(submissions[s].form_version, submissions[s].form)

\* C7: reading a submission back gives, for a form unchanged since the
\* submission, under each field id exactly the answer stored for that field;
\* and the answer of a field recreated under a new id with the same label and
\* type is presented under the new id.
C7_AnswersRoundTrip ==
    \A s \in DOMAIN submissions :
        LET sub == submissions[s]
            v == sub.form_version
            presented == PresentedAnswers(sub)
            current == FieldIdsOf(FormDb, sub.form)
        IN  /\ IsSnapshotOf(v, sub.form)
                => \A i \in current :
                      IF ToString(i) \in DOMAIN sub.answers
                      THEN /\ ToString(i) \in DOMAIN presented
                           /\ presented[ToString(i)] = sub.answers[ToString(i)]
                      ELSE ToString(i) \notin DOMAIN presented
            /\ \A k \in 1..Len(v.fields) : \A i \in current :
                  (/\ v.fields[k].key \notin {ToString(j) : j \in current}
                   /\ v.fields[k].key \in DOMAIN sub.answers
                   /\ v.fields[k].label = form_fields[i].label
                   /\ v.fields[k].type = form_fields[i].type)
                      => /\ ToString(i) \in DOMAIN presented
                         /\ presented[ToString(i)] = sub.answers[v.fields[k].key]

(***************************************************************************)
(* Claims about forms, their fields and options                            *)
(***************************************************************************)
\* C8: submitting as an update the unchanged representation just fetched for
\* a form leaves the persisted fields and options identical: the same field
\* ids, the same option ids, the same field count and the same option count.
C8_UpdateIdempotent ==
    [][\A f \in DOMAIN forms :
          FormUpdate(2, f, FormRepresentation(f))
              => /\ form_fields' = form_fields
                 /\ form_field_options' = form_field_options
      ]_vars

\* the ids of the existing fields (options) that a payload lists
ListedIds(entries, existing) ==
    {entries[k].id : k \in {n \in 1..Len(entries) :
                              "id" \in DOMAIN entries[n] /\ entries[n].id \in existing}}

NumNew(entries, existing) ==
    Cardinality({n \in 1..Len(entries) :
                    "id" \notin DOMAIN entries[n] \/ entries[n].id \notin existing})

\* the persisted field i carries the values and the options of the payload e
Carries(i, e, old_options) ==
    /\ form_fields'[i].type = e.type
    /\ form_fields'[i].label = e.label
    /\ form_fields'[i].required = e.required
    /\ e.type \in ChoiceTypes =>
          /\ ListedIds(e.options, old_options) \subseteq OptionIdsOf(FormDb', i)
          /\ OptionIdsOf(FormDb', i) \cap old_options = ListedIds(e.options, old_options)
          /\ Cardinality(OptionIdsOf(FormDb', i))
                = Cardinality(ListedIds(e.options, old_options))
                    + NumNew(e.options, old_options)
          /\ \A k \in 1..Len(e.options) :
                \E o \in OptionIdsOf(FormDb', i) :
                    form_field_options'[o].label = e.options[k].label

\* C9: after a form update whose payload lists some existing fields by id and
\* some new fields without id, the form's fields are exactly the listed
\* existing fields, each under its original id with the submitted values and
\* options, plus one new field per id-less payload; every field that was not
\* listed is deleted.
C9_UpdateReconciles ==
    [][\A f \in DOMAIN forms : \A data \in FormUpdatePayloads(f) :
          LET entries == data.form_fields
              existing == FieldIdsOf(FormDb, f)
              listed == ListedIds(entries, existing)
          IN  (/\ listed # {}
               /\ NumNew(entries, existing) > 0
               /\ FormUpdate(2, f, data)
               /\ response'.status = 200)
                  => /\ listed \subseteq FieldIdsOf(FormDb', f)
                     /\ FieldIdsOf(FormDb', f) \cap existing = listed
                     /\ Cardinality(FieldIdsOf(FormDb', f))
                            = Cardinality(listed) + NumNew(entries, existing)
                     /\ \A k \in 1..Len(entries) :
                           ("id" \in DOMAIN entries[k] /\ entries[k].id \in listed)
                               => Carries(entries[k].id, entries[k],
                                          OptionIdsOf(FormDb, entries[k].id))
      ]_vars

\* the persisted fields obey the option rules of their types
OptionRules ==
    \A i \in DOMAIN form_fields :
        /\ form_fields[i].type = "date_range" => OptionIdsOf(FormDb, i) = {}
        /\ form_fields[i].type \in ChoiceTypes => OptionIdsOf(FormDb, i) # {}

\* a field payload that breaks an option rule
BreaksOptionRule(e) ==
    \/ e.type = "date_range" /\ e.options # <<>>
    \/ e.type \in ChoiceTypes /\ e.options = <<>>

BrokenFieldPayloads == {e \in NewFieldPayloads : BreaksOptionRule(e)}

\* payloads with a field that breaks an option rule, alone or after a valid field
BrokenFormPayloads ==
    {[form_fields |-> <<e>>] : e \in BrokenFieldPayloads}
        \cup {[form_fields |-> <<[type |-> "text", label |-> "A", required |-> FALSE, order |-> 0,
                               options |-> <<>>], e>>] : e \in BrokenFieldPayloads}

\* C10: in every reachable state no persisted date_range field owns an option
\* and every persisted select, radio or checkbox field owns at least one; the
\* validation of every payload with a field that breaks either rule gives an
\* error keyed to options, and a create or update request with such a payload
\* is answered 400 with that error and changes no row.
C10_OptionRules ==
    /\ [](/\ OptionRules
          /\ \A f \in DOMAIN forms : \A data \in FormUpdatePayloads(f) :
                (\E k \in 1..Len(data.form_fields) : BreaksOptionRule(data.form_fields[k]))
                    => FieldsError(data.form_fields) \in OptionsErrors)
    /\ [][\A data \in BrokenFormPayloads :
             (FormCreate(2, data) \/ \E f \in DOMAIN forms : FormUpdate(2, f, data))
                 => /\ response'.status = 400
                    /\ response'.error \in OptionsErrors
                    /\ UNCHANGED form_vars
         ]_vars

\* a payload has just been refused with an options error while a select field
\* with an option and a date_range field are persisted
C10_Witness ==
    /\ response.status = 400
    /\ response.error \in OptionsErrors
    /\ \E i, j \in DOMAIN form_fields :
          /\ form_fields[i].type = "select"
          /\ OptionIdsOf(FormDb, i) # {}
          /\ form_fields[j].type = "date_range"

(***************************************************************************)
(* Imports of faculty availability, one request at a time.  An import is   *)
(* admitted while the rows it inserts leave MaxImported imported slots.    *)
(***************************************************************************)
ImportedSlots == {s \in DOMAIN time_slots : s >= 2}

SeqImportRequest ==
    \E u \in Users, pk \in 1..3 :
        /\ pk \in DOMAIN availabilities =>
              Cardinality(ImportedSlots) + Len(availabilities[pk].time_slots) <= MaxImported
        /\ ImportGetObject(1, u, pk)

NextImport ==
    \/ SeqImportRequest
    \/ ImportRecord(1)
    \/ ImportCreateSlot(1)
    \/ ImportCreateAttendee(1)
    \/ ImportReturn(1)

SpecImport == Init /\ [][NextImport]_vars

(***************************************************************************)
(* Claims about import_slots                                               *)
(***************************************************************************)
\* the attendee rows of slot s are exactly one row, of user u
OnlyAttendee(s, u) ==
    /\ NumAttendees(s) = 1
    /\ \A a \in DOMAIN attendees : attendees[a].time_slot = s => attendees[a].user = u

\* the slots that the import of availability a has created
SlotsOfFaculty(a) ==
    {s \in ImportedSlots : \E r \in DOMAIN attendees :
        attendees[r].time_slot = s /\ attendees[r].user = availabilities[a].faculty}

\* a step that changes the slot table adds one slot, created by the import
\* loop of the running request
AddsOneImportedSlot ==
    time_slots' # time_slots =>
        \E s \in DOMAIN time_slots' \ DOMAIN time_slots :
            /\ req[1].pc = "import_loop"
            /\ time_slots' = time_slots @@ (s :> time_slots'[s])
            /\ req'[1].obj.id = s

\* the import that returns 201 has created one slot per availability slot
ReturnsCreatedSlots ==
    (req[1].pc = "import_loop" /\ response'.status = 201) =>
        LET a == availabilities[req[1].avail]
            created == req[1].created
        IN  /\ Len(created) = Len(a.time_slots)
            /\ \A i, j \in 1..Len(created) : created[i] = created[j] => i = j
            /\ \A i \in 1..Len(created) :
                  /\ created[i] \in DOMAIN time_slots
                  /\ created[i] \notin {1}
                  /\ time_slots[created[i]].candidate_section = a.candidate_section
                  /\ time_slots[created[i]].start_time = a.time_slots[i].start_time
                  /\ time_slots[created[i]].end_time = a.time_slots[i].end_time
                  /\ time_slots[created[i]].max_attendees = 1
                  /\ OnlyAttendee(created[i], a.faculty)

\* between requests the imported slots of an availability are a multiple of
\* its number of time slots
ImportedInMultiples ==
    req[1].pc = "idle" =>
        /\ \A a \in DOMAIN availabilities :
              /\ Cardinality(SlotsOfFaculty(a)) % Len(availabilities[a].time_slots) = 0
              /\ (SlotsOfFaculty(a) # {}) <=>
                    InSeq(a, sections[availabilities[a].candidate_section]
                                .imported_availability_ids)
        /\ ImportedSlots = UNION {SlotsOfFaculty(a) : a \in DOMAIN availabilities}

\* C11: each successful import_slots call on an availability with N time
\* slots adds exactly N new SessionTimeSlots to the availability's section,
\* one per availability slot with its start and end time and max_attendees 1,
\* each with the faculty member as its only attendee; also when the
\* availability was imported before, so that k calls leave k*N slots.
C11_ImportAddsSlots ==
    /\ [][AddsOneImportedSlot /\ ReturnsCreatedSlots]_vars
    /\ []ImportedInMultiples

\* availability 2, of two time slots, has been imported twice
C11_Witness ==
    /\ req[1].pc = "idle"
    /\ response.status = 201
    /\ Cardinality(SlotsOfFaculty(2)) = 2 * Len(availabilities[2].time_slots)

NoDuplicates(seq) == \A i, j \in 1..Len(seq) : seq[i] = seq[j] => i = j

\* C12: with import_slots calls processed one at a time, a section's
\* imported_availability_ids never holds an availability id twice: the first
\* import of an availability appends its id once and every later import of it
\* leaves the list as it was.
C12_ImportedIdsOnce ==
    /\ [](\A s \in DOMAIN sections : NoDuplicates(sections[s].imported_availability_ids))
    /\ [][\A s \in DOMAIN sections :
             LET ids == sections[s].imported_availability_ids
             IN  IF /\ req[1].pc = "import_record"
                    /\ availabilities[req[1].avail].candidate_section = s
                    /\ ~InSeq(req[1].avail, ids)
                 THEN sections'[s].imported_availability_ids = Append(ids, req[1].avail)
                 ELSE sections'[s].imported_availability_ids = ids
         ]_vars

\* both availabilities are recorded and the second import of one has returned
C12_Witness ==
    /\ req[1].pc = "idle"
    /\ response.status = 201
    /\ Len(sections[1].imported_availability_ids) = 2
    /\ Cardinality(SlotsOfFaculty(1)) = 2

(***************************************************************************)
(* AvailabilityInvitationViewSet.invite_faculty.  The rows of              *)
(* AvailabilityInvitation are unique_together on (faculty,                 *)
(* candidate_section); get_or_create is a SELECT, then an INSERT when the  *)
(* SELECT found nothing, then a second SELECT when the INSERT raised       *)
(* IntegrityError.                                                         *)
(***************************************************************************)
InvitationsOf(faculty, section) ==
    {i \in DOMAIN invitations :
        invitations[i].faculty = faculty /\ invitations[i].candidate_section = section}

\* the table without its unique_together constraint
InvitationInsertNoUnique(faculty, section) == TRUE

InvitationInsertAllowed(faculty, section) == InvitationsOf(faculty, section) = {}

\* the ids of a set, in ascending order
RECURSIVE Ascending(_)
Ascending(S) ==
    IF S = {} THEN <<>>
    ELSE LET m == CHOOSE x \in S : \A y \in S : x <= y
         IN  <<m>> \o Ascending(S \ {m})

\* for faculty in faculty_users: for section in candidate_sections
RECURSIVE PairsOf(_, _)
PairsOf(faculty_users, candidate_sections) ==
    IF faculty_users = <<>> THEN <<>>
    ELSE [i \in 1..Len(candidate_sections) |->
              [faculty |-> Head(faculty_users), section |-> candidate_sections[i]]]
         \o PairsOf(Tail(faculty_users), candidate_sections)

\* the admin check, the check of the two id lists, and the two filter queries
InviteFaculty(p, u, faculty_ids, candidate_section_ids, send_email) ==
    /\ req[p].pc = "idle"
    /\ IF ~is_admin(u)
       THEN Reply(p, 403, "Only admins can send invitations")
       ELSE IF faculty_ids = {} \/ candidate_section_ids = {}
       THEN Reply(p, 400, "Both faculty_ids and candidate_section_ids are required")
       ELSE LET faculty_users ==
                    Ascending({f \in faculty_ids \cap DOMAIN user_type :
                                  user_type[f] \in {"faculty", "admin", "superadmin"}})
                candidate_sections ==
                    Ascending(candidate_section_ids \cap DOMAIN sections)
            IN  Goto(p, [Idle EXCEPT
                    !.pc = "invite_loop", !.user = u, !.send_email = send_email,
                    !.pairs = PairsOf(faculty_users, candidate_sections),
                    !.todo = PairsOf(faculty_users, candidate_sections)])
    /\ UNCHANGED <<extra_vars, form_vars, user_type, sections, availabilities, slot_vars>>

\* what follows get_or_create for the row it returned: the request saves the
\* row when it has mail to send, and goes on to the next pair otherwise
AfterGetOrCreate(p, row, created, email_sent) ==
    IF req[p].send_email /\ (created \/ ~email_sent)
    THEN Goto(p, [req[p] EXCEPT !.pc = "invite_save", !.row = row,
                                !.was_created = created])
    ELSE Goto(p, [req[p] EXCEPT !.pc = "invite_loop", !.todo = Tail(req[p].todo),
                                !.row = row, !.was_created = created])

\* get_or_create: self.get(faculty=faculty, candidate_section=section)
InviteGet(p) ==
    /\ req[p].pc = "invite_loop"
    /\ req[p].todo # <<>>
    /\ LET pair == Head(req[p].todo)
           rows == InvitationsOf(pair.faculty, pair.section)
       IN  IF rows = {}
           THEN Goto(p, [req[p] EXCEPT !.pc = "invite_create"])
           ELSE IF Cardinality(rows) > 1
           THEN Reply(p, 400, "MultipleObjectsReturned")
           ELSE LET i == CHOOSE j \in rows : TRUE
                IN  AfterGetOrCreate(p, i, FALSE, invitations[i].email_sent)
    /\ UNCHANGED <<extra_vars, form_vars, user_type, sections, availabilities, slot_vars>>

\* get_or_create: self.create(faculty=..., candidate_section=..., created_by=...)
InviteCreate(p) ==
    /\ req[p].pc = "invite_create"
    /\ LET pair == Head(req[p].todo)
       IN  IF InvitationInsertAllowed(pair.faculty, pair.section)
           THEN /\ invitations' = invitations @@
                       (next_invitation_id :>
                           [id |-> next_invitation_id, faculty |-> pair.faculty,
                            candidate_section |-> pair.section,
                            created_by |-> req[p].user, email_sent |-> FALSE])
                /\ next_invitation_id' = next_invitation_id + 1
                /\ AfterGetOrCreate(p, next_invitation_id, TRUE, FALSE)
           ELSE /\ Goto(p, [req[p] EXCEPT !.pc = "invite_reget"])
                /\ UNCHANGED <<invitations, next_invitation_id>>
    /\ UNCHANGED <<sessions, outbox, form_vars, user_type, sections, availabilities,
                   slot_vars>>

\* get_or_create after IntegrityError: self.get(...) again, and the error is
\* raised when the row is still not there
InviteReget(p) ==
    /\ req[p].pc = "invite_reget"
    /\ LET pair == Head(req[p].todo)
           rows == InvitationsOf(pair.faculty, pair.section)
       IN  IF rows = {}
           THEN Reply(p, 400, "IntegrityError")
           ELSE IF Cardinality(rows) > 1
           THEN Reply(p, 400, "MultipleObjectsReturned")
           ELSE LET i == CHOOSE j \in rows : TRUE
                IN  AfterGetOrCreate(p, i, FALSE, invitations[i].email_sent)
    /\ UNCHANGED <<extra_vars, form_vars, user_type, sections, availabilities, slot_vars>>

\* _send_invitation_email: send_mail(..., fail_silently=False) delivers the
\* mail or raises, and the except branch logs the error and returns
SendInvitationEmail(row, delivered) ==
    outbox' = IF delivered THEN outbox \cup {row} ELSE outbox

\* self._send_invitation_email(invitation); invitation.email_sent = True;
\* invitation.save(), an UPDATE of the row by its id
InviteSave(p) ==
    /\ req[p].pc = "invite_save"
    /\ \E delivered \in BOOLEAN : SendInvitationEmail(req[p].row, delivered)
    /\ invitations' = [invitations EXCEPT ![req[p].row].email_sent = TRUE]
    /\ Goto(p, [req[p] EXCEPT !.pc = "invite_loop", !.todo = Tail(req[p].todo)])
    /\ UNCHANGED <<sessions, next_invitation_id, form_vars, user_type, sections,
                   availabilities, slot_vars>>

\* return Response({...}, status=201)
InviteReturn(p) ==
    /\ req[p].pc = "invite_loop"
    /\ req[p].todo = <<>>
    /\ Reply(p, 201, "")
    /\ UNCHANGED <<extra_vars, form_vars, user_type, sections, availabilities, slot_vars>>

(***************************************************************************)
(* Invitation requests of two workers that interleave between their        *)
(* database operations.                                                    *)
(***************************************************************************)
MaxInvitationId == 3

InviteCallers == {1, 2, 4}
FacultyIdLists == {{}, {1}, {1, 2}, {1, 3}}
SectionIdLists == {{}, {1}, {1, 2}}

InviteRequest(p) ==
    \E u \in InviteCallers, fs \in FacultyIdLists, cs \in SectionIdLists,
       send_email \in BOOLEAN :
        InviteFaculty(p, u, fs, cs, send_email)

NextInvite ==
    \E p \in Procs :
        \/ InviteRequest(p)
        \/ InviteGet(p)
        \/ next_invitation_id <= MaxInvitationId /\ InviteCreate(p)
        \/ InviteReget(p)
        \/ InviteSave(p)
        \/ InviteReturn(p)

SpecInvite == Init /\ [][NextInvite]_vars

(***************************************************************************)
(* Claims about invitations                                                *)
(***************************************************************************)
InvitePairs == {[faculty |-> f, section |-> c] : f \in DOMAIN user_type, c \in Sections}

\* the pairs a request has been through: those of its list that are no longer
\* ahead of it
PairsDone(r) == {r.pairs[i] : i \in 1..(Len(r.pairs) - Len(r.todo))}

AtMostOneInvitation ==
    \A pr \in InvitePairs : Cardinality(InvitationsOf(pr.faculty, pr.section)) <= 1

OneInvitationOncePassed ==
    \A p \in Procs :
        req[p].pc \in {"invite_loop", "invite_save"} =>
            \A pr \in PairsDone(req[p]) \cup
                      (IF req[p].pc = "invite_save" THEN {Head(req[p].todo)} ELSE {}) :
                Cardinality(InvitationsOf(pr.faculty, pr.section)) = 1

InvitationStays ==
    \A pr \in InvitePairs :
        Cardinality(InvitationsOf(pr.faculty, pr.section)) = 1 =>
            Cardinality({i \in DOMAIN invitations' :
                            /\ invitations'[i].faculty = pr.faculty
                            /\ invitations'[i].candidate_section = pr.section}) = 1

\* C13: under any interleaving of invite_faculty requests there is at most one
\* AvailabilityInvitation row per (faculty, candidate_section) pair in every
\* state; a request has exactly one row for every pair it has been through,
\* so for all its pairs when it answers 201, and a pair that has one row
\* keeps one.
C13_OneInvitationPerPair ==
    /\ []AtMostOneInvitation
    /\ []OneInvitationOncePassed
    /\ [][InvitationStays]_vars

\* a worker whose INSERT met the row of the other worker's INSERT for the same
\* pair, while the other worker is through its list
C13_Witness ==
    /\ req[1].pc = "invite_reget"
    /\ req[2].pc = "invite_loop"
    /\ req[2].todo = <<>>
    /\ req[2].user # req[1].user
    /\ Head(req[1].todo) \in PairsDone(req[2])
    /\ Cardinality(InvitationsOf(Head(req[1].todo).faculty, Head(req[1].todo).section)) = 1

(***************************************************************************)
(* Model.delete(): the rows that go with deleted users and sessions.       *)
(* Every foreign key of candidate_sessions/models.py is on_delete=CASCADE; *)
(* Form.assigned_to is a many-to-many relation, whose links to a deleted   *)
(* user go and whose forms stay.                                           *)
(***************************************************************************)
Without(rows, gone) == [i \in DOMAIN rows \ gone |-> rows[i]]

\* the deletion of users us and sessions ss with everything that cascades
DeleteRows(us, ss) ==
    LET gone_sessions == ss \cup {s \in DOMAIN sessions : sessions[s].created_by \in us}
        gone_sections ==
            {c \in DOMAIN sections :
                sections[c].candidate \in us \/ sections[c].session \in gone_sessions}
        gone_slots ==
            {t \in DOMAIN time_slots : time_slots[t].candidate_section \in gone_sections}
        gone_attendees ==
            {a \in DOMAIN attendees :
                attendees[a].user \in us \/ attendees[a].time_slot \in gone_slots}
        gone_availabilities ==
            {a \in DOMAIN availabilities :
                \/ availabilities[a].faculty \in us
                \/ availabilities[a].candidate_section \in gone_sections}
        gone_invitations ==
            {i \in DOMAIN invitations :
                \/ invitations[i].faculty \in us
                \/ invitations[i].created_by \in us
                \/ invitations[i].candidate_section \in gone_sections}
        gone_forms == {f \in DOMAIN forms : forms[f].created_by \in us}
        gone_fields == {i \in DOMAIN form_fields : form_fields[i].form \in gone_forms}
        gone_options ==
            {o \in DOMAIN form_field_options : form_field_options[o].field \in gone_fields}
        gone_submissions ==
            {b \in DOMAIN submissions :
                submissions[b].submitted_by \in us \/ submissions[b].form \in gone_forms}
    IN  /\ user_type' = Without(user_type, us)
        /\ is_staff' = Without(is_staff, us)
        /\ sessions' = Without(sessions, gone_sessions)
        /\ sections' = Without(sections, gone_sections)
        /\ time_slots' = Without(time_slots, gone_slots)
        /\ attendees' = Without(attendees, gone_attendees)
        /\ availabilities' = Without(availabilities, gone_availabilities)
        /\ invitations' = Without(invitations, gone_invitations)
        /\ forms' = [f \in DOMAIN forms \ gone_forms |->
                        [forms[f] EXCEPT !.assigned_to = @ \ us]]
        /\ form_fields' = Without(form_fields, gone_fields)
        /\ form_field_options' = Without(form_field_options, gone_options)
        /\ submissions' = Without(submissions, gone_submissions)
        /\ UNCHANGED <<next_slot_id, next_attendee_id, next_invitation_id, outbox, next_form_id,
                       next_field_id, next_option_id, next_submission_id>>

\* Model.delete() within a handler that is modelled as one step
DeleteCollected(us, ss) == DeleteRows(us, ss) /\ UNCHANGED req

\* the request changes no row
NoChange ==
    UNCHANGED <<user_type, sections, availabilities, slot_vars, req, extra_vars, form_vars>>

(***************************************************************************)
(* users/models.py and users/views.py: UserViewSet                         *)
(***************************************************************************)
USER_TYPE_CHOICES == {"candidate", "faculty", "admin", "superadmin"}

is_superadmin(u) == user_type[u] = "superadmin"

\* UserViewSet.get_queryset, and get_object's lookup in it
UserVisible(u, pk) ==
    /\ pk \in DOMAIN user_type
    /\ (~is_superadmin(u) /\ is_admin(u)) => user_type[pk] # "superadmin"

\* request.data.get('user_type') of a payload that has no user_type: None
NoRole == ""

\* an update_role without the check for the last superadmin
UpdateRoleNoLastCheck(u, pk, data) ==
    LET new_role == DictGet(data, "user_type", NoRole)
    IN  IF ~UserVisible(u, pk)
        THEN Send(404, "Not found.") /\ NoChange
        ELSE IF ~is_superadmin(u)
        THEN Send(403, "Permission denied") /\ NoChange
        ELSE IF new_role \notin USER_TYPE_CHOICES
        THEN Send(400, "Invalid user type") /\ NoChange
        ELSE IF is_superadmin(pk) /\ pk # u
        THEN Send(403, "Cannot change another superadmin's role") /\ NoChange
        ELSE /\ user_type' = [user_type EXCEPT ![pk] = new_role]
             /\ Send(200, "")
             /\ UNCHANGED <<sections, availabilities, slot_vars, req, extra_vars, form_vars>>

\* UserViewSet.update_role: PATCH /users/{pk}/update_role/
UpdateRole(u, pk, data) ==
    LET new_role == DictGet(data, "user_type", NoRole)
        superadmin_count == Cardinality({w \in DOMAIN user_type : is_superadmin(w)})
    IN  IF ~UserVisible(u, pk)
        THEN Send(404, "Not found.") /\ NoChange
        ELSE IF ~is_superadmin(u)
        THEN Send(403, "Permission denied") /\ NoChange
        ELSE IF new_role \notin USER_TYPE_CHOICES
        THEN Send(400, "Invalid user type") /\ NoChange
        ELSE IF is_superadmin(pk) /\ superadmin_count = 1 /\ new_role # "superadmin"
        THEN Send(400, "Cannot change role: This is the last superadmin user") /\ NoChange
        ELSE IF is_superadmin(pk) /\ pk # u
        THEN Send(403, "Cannot change another superadmin's role") /\ NoChange
        ELSE /\ user_type' = [user_type EXCEPT ![pk] = new_role]
             /\ Send(200, "")
             /\ UNCHANGED <<sections, availabilities, slot_vars, req, extra_vars, form_vars>>

\* UserViewSet.update / partial_update: PUT or PATCH /users/{pk}/ through
\* UserUpdateSerializer for an admin caller and UserSerializer for the others.
\* Both serializers have user_type among their writable fields; email and
\* username are required by UserSerializer and read-only in UserUpdateSerializer.
UserUpdate(u, pk, partial, data) ==
    IF ~UserVisible(u, pk)
    THEN Send(404, "Not found.") /\ NoChange
    ELSE IF ~is_admin(u) /\ ~partial /\ "email" \notin DOMAIN data
    THEN Send(400, "email: This field is required.") /\ NoChange
    ELSE IF ~is_admin(u) /\ ~partial /\ "username" \notin DOMAIN data
    THEN Send(400, "username: This field is required.") /\ NoChange
    ELSE IF "user_type" \in DOMAIN data /\ data.user_type \notin USER_TYPE_CHOICES
    THEN Send(400, "user_type: not a valid choice.") /\ NoChange
    ELSE /\ user_type' = [user_type EXCEPT ![pk] = DictGet(data, "user_type", @)]
         /\ Send(200, "")
         /\ UNCHANGED <<sections, availabilities, slot_vars, req, extra_vars, form_vars>>

\* a destroy that admits every admin caller
UserDestroyByAdmins(u, pk) ==
    IF ~UserVisible(u, pk)
    THEN Send(404, "Not found.") /\ NoChange
    ELSE IF ~is_admin(u)
    THEN Send(403, "Only superadmins can delete users") /\ NoChange
    ELSE IF user_type[pk] = "superadmin"
    THEN Send(400, "Cannot delete superadmin users") /\ NoChange
    ELSE IF pk = u
    THEN Send(400, "Cannot delete your own account") /\ NoChange
    ELSE DeleteCollected({pk}, {}) /\ Send(204, "")

\* UserViewSet.destroy: DELETE /users/{pk}/
UserDestroy(u, pk) ==
    IF ~UserVisible(u, pk)
    THEN Send(404, "Not found.") /\ NoChange
    ELSE IF ~is_superadmin(u)
    THEN Send(403, "Only superadmins can delete users") /\ NoChange
    ELSE IF user_type[pk] = "superadmin"
    THEN Send(400, "Cannot delete superadmin users") /\ NoChange
    ELSE IF pk = u
    THEN Send(400, "Cannot delete your own account") /\ NoChange
    ELSE DeleteCollected({pk}, {}) /\ Send(204, "")

(***************************************************************************)
(* Requests on users, one at a time.                                       *)
(***************************************************************************)
UserPks == 1..5
RolePayloads ==
    {<<>>} \cup {[user_type |-> r] : r \in USER_TYPE_CHOICES \cup {"invalid_type"}}
UserPayloads ==
    RolePayloads
    \cup {[email |-> "same", username |-> "same"]}
    \cup {[email |-> "same", username |-> "same", user_type |-> r] :
             r \in USER_TYPE_CHOICES}

UpdateRoleRequest ==
    \E u \in DOMAIN user_type, pk \in UserPks, data \in RolePayloads :
        UpdateRole(u, pk, data)

UserUpdateRequest ==
    \E u \in DOMAIN user_type, pk \in UserPks, partial \in BOOLEAN, data \in UserPayloads :
        UserUpdate(u, pk, partial, data)

UserDestroyRequest ==
    \E u \in DOMAIN user_type, pk \in UserPks : UserDestroy(u, pk)

\* the role changes and deletions that update_role and destroy allow
NextRoles == UpdateRoleRequest \/ UserDestroyRequest
SpecRoles == InitOneSeat /\ [][NextRoles]_vars

\* with the generic update of a user as well
NextUsers == UpdateRoleRequest \/ UserUpdateRequest \/ UserDestroyRequest
SpecUsers == InitOneSeat /\ [][NextUsers]_vars

(***************************************************************************)
(* Claims about users                                                      *)
(***************************************************************************)
Superadmins == {w \in DOMAIN user_type : is_superadmin(w)}

\* C14: every update_role, update or partial_update request whose caller is a
\* candidate, faculty or admin leaves the user_type of every user unchanged.
C14_RoleChangeOnlyBySuperadmin ==
    [][\A u \in DOMAIN user_type, pk \in UserPks :
          ~is_superadmin(u) =>
              /\ \A data \in RolePayloads :
                    UpdateRole(u, pk, data) => user_type' = user_type
              /\ \A partial \in BOOLEAN, data \in UserPayloads :
                    UserUpdate(u, pk, partial, data) => user_type' = user_type
      ]_vars

\* the destroy request of caller u for the user pk there is
DestroyOf(u, pk) == pk \in DOMAIN user_type /\ UserDestroy(u, pk)

DestroyAllowed(u, pk) == is_superadmin(u) /\ pk # u /\ ~is_superadmin(pk)

\* C15 as stated: a destroy request removes the target only when the caller is
\* a superadmin and the target is neither the caller nor a superadmin; a
\* non-superadmin caller gets 403, a superadmin target or a self-target gets
\* 400, and in the rejected cases the set of users is unchanged.
C15_DestroyRejections ==
    [][\A u \in DOMAIN user_type, pk \in UserPks :
          DestroyOf(u, pk) =>
              IF DestroyAllowed(u, pk)
              THEN DOMAIN user_type' = DOMAIN user_type \ {pk}
              ELSE /\ user_type' = user_type
                   /\ response'.status = IF ~is_superadmin(u) THEN 403 ELSE 400
      ]_vars

\* C15 amended: as stated, except that an admin caller whose target is a
\* superadmin gets 404, because get_queryset hides superadmins from admins.
C15_DestroyRejectionsOr404 ==
    [][\A u \in DOMAIN user_type, pk \in UserPks :
          DestroyOf(u, pk) =>
              IF DestroyAllowed(u, pk)
              THEN /\ DOMAIN user_type' = DOMAIN user_type \ {pk}
                   /\ response'.status = 204
              ELSE /\ user_type' = user_type
                   /\ response'.status =
                         IF user_type[u] = "admin" /\ is_superadmin(pk) THEN 404
                         ELSE IF ~is_superadmin(u) THEN 403
                         ELSE 400
      ]_vars

\* the candidate has been deleted, and the section with them
C15_Witness ==
    /\ response = Resp(204, "")
    /\ 3 \notin DOMAIN user_type
    /\ sections = <<>>
    /\ time_slots = <<>>
    /\ Superadmins # {}

\* the update_role request of a superadmin caller u for the user pk there is
RoleRequestOf(u, pk, data) ==
    /\ is_superadmin(u)
    /\ pk \in DOMAIN user_type
    /\ UpdateRole(u, pk, data)

SessionDestroy(p, u, pk) ==
    /\ req[p].pc = "idle"
    /\ IF pk \notin DOMAIN sessions
       THEN Send(404, "Not found.") /\ NoChange
       ELSE DeleteCollected({}, {pk}) /\ Send(204, "")

(***************************************************************************)
(* SessionTimeSlotViewSet.create: POST /timeslots/ through                 *)
(* SessionTimeSlotCreateSerializer.  IsAdminOrFacultyOrSectionOwner gives  *)
(* has_permission to every authenticated user, and create looks up no      *)
(* object.  The fields are validated before validate() runs.               *)
(***************************************************************************)
CreateTimeSlot(p, u, data) ==
    /\ req[p].pc = "idle"
    /\ IF data.candidate_section = Absent
       THEN /\ Reply(p, 400, "candidate_section: This field is required.")
            /\ UNCHANGED <<time_slots, next_slot_id>>
       ELSE IF data.candidate_section \notin DOMAIN sections
       THEN /\ Reply(p, 400, "candidate_section: Invalid pk - object does not exist.")
            /\ UNCHANGED <<time_slots, next_slot_id>>
       ELSE IF data.start_time = Absent
       THEN /\ Reply(p, 400, "start_time: This field is required.")
            /\ UNCHANGED <<time_slots, next_slot_id>>
       ELSE IF ~SlotValidateOk(data)
       THEN /\ Reply(p, 400, "end_time: End time must be after start time.")
            /\ UNCHANGED <<time_slots, next_slot_id>>
       ELSE /\ time_slots' = time_slots @@ (next_slot_id :>
                   [id |-> next_slot_id,
                    candidate_section |-> data.candidate_section,
                    start_time |-> data.start_time,
                    end_time |-> Get(data, "end_time"),
                    max_attendees |-> IF data.max_attendees = Absent THEN 1
                                      ELSE data.max_attendees])
            /\ next_slot_id' = next_slot_id + 1
            /\ Reply(p, 201, "")
    /\ UNCHANGED <<extra_vars, form_vars, user_type, sections, availabilities, attendees,
                   next_attendee_id>>

(***************************************************************************)
(* Requests on sessions and time slots, one at a time: a session is        *)
(* deleted, slots are created, slot 1 is updated, availabilities are       *)
(* imported.  Days are numbered; the session of the initial state is day 2 *)
(* alone.                                                                  *)
(***************************************************************************)
MaxDay == 3
MaxSlots == 3

Days == 1..MaxDay

SlotCreatePayloads ==
    {[candidate_section |-> c, start_time |-> a, end_time |-> b, max_attendees |-> Absent] :
        c \in {Absent, 1, 2}, a \in {Absent} \cup Days, b \in {Absent} \cup Days}

SlotTimePayloads ==
    {[start_time |-> a, end_time |-> b, max_attendees |-> Absent] :
        a \in {Absent} \cup Days, b \in {Absent} \cup Days}

SlotCreateRequest ==
    \E u \in {2, 3}, data \in SlotCreatePayloads :
        /\ next_slot_id <= MaxSlots
        /\ CreateTimeSlot(1, u, data)

SlotUpdateRequest ==
    \E u \in {1, 3}, partial \in BOOLEAN, data \in SlotTimePayloads :
        UpdateTimeSlot(1, u, 1, partial, data)

SlotImportRequest ==
    \E u \in {1, 2}, pk \in 1..2 :
        /\ pk \in DOMAIN availabilities =>
              next_slot_id + Len(availabilities[pk].time_slots) - 1 <= MaxSlots
        /\ ImportGetObject(1, u, pk)

SessionDestroyRequest ==
    \E u \in Users, pk \in 1..2 : SessionDestroy(1, u, pk)

NextSlots ==
    \/ SessionDestroyRequest
    \/ SlotCreateRequest
    \/ SlotUpdateRequest
    \/ SlotImportRequest
    \/ ImportRecord(1)
    \/ ImportCreateSlot(1)
    \/ ImportCreateAttendee(1)
    \/ ImportReturn(1)

SpecSlots == InitOneSeat /\ [][NextSlots]_vars

(***************************************************************************)
(* Claims about sessions and the times of time slots                       *)
(***************************************************************************)
\* C17: a delete request for a session from a candidate or faculty caller is
\* rejected with 403, and the session with its sections, time slots and
\* attendees remains; the delete is carried out only for admin and superadmin
\* callers.
C17_SessionDeleteAdminOnly ==
    [][\A u \in Users, pk \in DOMAIN sessions :
          (user_type[u] \in {"candidate", "faculty"} /\ SessionDestroy(1, u, pk))
              => /\ response'.status = 403
                 /\ UNCHANGED <<sessions, sections, time_slots, attendees>>
      ]_vars

EndAfterStart(slot) ==
    (slot.start_time # None /\ slot.end_time # None) => slot.end_time > slot.start_time

EndTimeError == Resp(400, "end_time: End time must be after start time.")

\* C18: every persisted time slot that has both times has end_time >
\* start_time, after any sequence of create, update, partial-update and
\* import_slots requests; an update that would leave a slot with end_time <=
\* start_time is rejected with the error keyed to end_time.
C18_EndAfterStart ==
    /\ [](\A s \in DOMAIN time_slots : EndAfterStart(time_slots[s]))
    /\ [][\A u \in Users, partial \in BOOLEAN, data \in SlotTimePayloads :
             (/\ 1 \in DOMAIN time_slots
              /\ has_object_permission(u, "PATCH", None, time_slots[1])
              /\ partial \/ data.start_time # Absent
              /\ UpdateTimeSlot(1, u, 1, partial, data)
              /\ ~EndAfterStart(SlotApply(time_slots[1], data)))
                 => response' = EndTimeError /\ time_slots' = time_slots
        ]_vars

\* datetime t lies before the first day, or after the last day, of the session
\* of section c
SessionOf(c) == sessions[sections[c].session]
BeforeSession(t, c) == t # Absent /\ t # None /\ t < SessionOf(c).start_date
AfterSession(t, c) == t # Absent /\ t # None /\ t > SessionOf(c).end_date

StartTimeErrors == {"start_time: " \o m : m \in
    {"Start time must be within the session dates."}}
EndTimeErrors == {"end_time: " \o m : m \in
    {"End time must be after start time.", "End time must be within the session dates."}}

\* C19: the creation of a time slot whose start_time is before the start_date
\* of the parent session is rejected with a validation error keyed to
\* start_time, one whose end_time is after the end_date with an error keyed
\* to end_time; no slot is persisted in either case.
C19_SlotWithinSession ==
    [][\A u \in Users, data \in SlotCreatePayloads :
          (/\ data.candidate_section \in DOMAIN sections
           /\ data.start_time # Absent
           /\ CreateTimeSlot(1, u, data))
              => /\ BeforeSession(data.start_time, data.candidate_section)
                    => /\ response'.status = 400
                       /\ response'.error \in StartTimeErrors \cup EndTimeErrors
                       /\ time_slots' = time_slots
                 /\ (/\ AfterSession(data.end_time, data.candidate_section)
                     /\ ~BeforeSession(data.start_time, data.candidate_section))
                    => /\ response'.status = 400
                       /\ response'.error \in EndTimeErrors
                       /\ time_slots' = time_slots
      ]_vars

(***************************************************************************)
(* Register requests of users whose roles a superadmin changes between the *)
(* requests, so that there are candidates who own the section of the slot  *)
(* and candidates who do not.                                              *)
(***************************************************************************)
AnyoneRegisterRequest ==
    \E u \in DOMAIN user_type, s \in SlotIds, ds \in DataSections :
        RegisterGetObject(1, u, s, ds)

RoleChangeRequest ==
    /\ req[1].pc = "idle"
    /\ \E pk \in Users, r \in USER_TYPE_CHOICES : UpdateRole(4, pk, [user_type |-> r])

NextRegister ==
    \/ AnyoneRegisterRequest
    \/ RegisterIsFull(1)
    \/ RegisterExists(1)
    \/ AttendeeIdsLeft(1) /\ RegisterCreate(1)
    \/ RoleChangeRequest

SpecRegister == Init /\ [][NextRegister]_vars

(***************************************************************************)
(* Claims about registration                                               *)
(***************************************************************************)
\* C20: a register request for a time slot by a user whose role is candidate
\* is answered 403 at once and creates no attendee row, whatever seats the
\* slot has left and whether or not the candidate owns the section of the slot.
C20_CandidateCannotRegister ==
    [][\A u \in DOMAIN user_type, s \in DOMAIN time_slots, ds \in DataSections :
          (user_type[u] = "candidate" /\ RegisterGetObject(1, u, s, ds))
              => /\ response'.status = 403
                 /\ req'[1].pc = "idle"
                 /\ attendees' = attendees
                 /\ next_attendee_id' = next_attendee_id
      ]_vars

\* the owner of the section has just been refused while the slot has a seat
\* left, and there is a candidate who does not own the section
C20_Witness ==
    /\ response = Resp(403, "Candidates cannot register for sessions")
    /\ available_slots(time_slots[1]) > 0
    /\ user_type[3] = "candidate"
    /\ user_type[1] = "candidate"

\* the caller of the register request of worker 1 holds an attendee row on its slot
CallerHoldsRow ==
    \E a \in DOMAIN attendees :
        attendees[a].time_slot = req[1].obj.id /\ attendees[a].user = req[1].user

\* the steps of such a request: the full check comes first and answers 'Time
\* slot is full' at capacity; with seats left the duplicate check answers
\* 'Already registered for this time slot'; no step adds a row
HolderRejected ==
    (req[1].pc \in {"register_is_full", "register_exists"} /\ CallerHoldsRow) =>
        /\ attendees' = attendees
        /\ req[1].pc = "register_is_full" =>
              IF available_slots(time_slots[req[1].obj.id]) <= 0
              THEN response' = Resp(400, "Time slot is full") /\ req'[1].pc = "idle"
              ELSE req'[1].pc = "register_exists"
        /\ req[1].pc = "register_exists" =>
              /\ response' = Resp(400, "Already registered for this time slot")
              /\ req'[1].pc = "idle"
              /\ available_slots(time_slots[req[1].obj.id]) > 0

CallerRows ==
    {a \in DOMAIN attendees :
        attendees[a].time_slot = req[1].obj.id /\ attendees[a].user = req[1].user}

\* the steps of an unregister request that get_object has let through
UnregisterSteps ==
    /\ req[1].pc = "unregister_get" =>
          /\ attendees' = attendees
          /\ time_slots' = time_slots
          /\ IF CallerRows = {}
             THEN response' = Resp(404, "Not found.") /\ req'[1].pc = "idle"
             ELSE req'[1].pc = "unregister_delete" /\ req'[1].row \in CallerRows
    /\ req[1].pc = "unregister_delete" =>
          /\ Cardinality(CallerRows) = 1
          /\ DOMAIN attendees' = DOMAIN attendees \ CallerRows
          /\ \A a \in DOMAIN attendees' : attendees'[a] = attendees[a]
          /\ time_slots' = time_slots
          /\ response' = Resp(204, "")

UnassignedCreate(u, data) ==
    /\ "form" \in DOMAIN data
    /\ data.form \in DOMAIN forms
    /\ u \notin forms[data.form].assigned_to
    /\ SubmissionCreate(u, data)

\* every row a step adds has a submitter who was assigned to its form
NewRowsAssigned ==
    \A b \in DOMAIN submissions' \ DOMAIN submissions :
        /\ submissions'[b].form \in DOMAIN forms
        /\ submissions'[b].submitted_by \in forms[submissions'[b].form].assigned_to

C24_EmailSentOnlyIfDelivered ==
    \A i \in DOMAIN invitations : invitations[i].email_sent => i \in outbox

(***************************************************************************)
(* FacultyAvailabilityViewSet.update and partial_update:                   *)
(* PUT and PATCH /faculty-availability/{pk}/                               *)
(* get_serializer_class returns FacultyAvailabilitySerializer for every    *)
(* action but create. Its fields faculty, candidate_section and notes are  *)
(* writable, time_slots is declared read_only=True and so never reaches    *)
(* validated_data, and the serializer has no update() of its own.          *)
(***************************************************************************)
\* ModelSerializer.update: setattr for every key of validated_data, save()
AvailabilityUpdated(row, data) ==
    [row EXCEPT !.faculty = DictGet(data, "faculty", @),
                !.candidate_section = DictGet(data, "candidate_section", @),
                !.notes = DictGet(data, "notes", @)]

AvailabilityUpdate(u, pk, partial, data) ==
    /\ IF ~AvailabilityVisible(u, pk)
       THEN /\ Send(404, "Not found.")
            /\ UNCHANGED availabilities
       ELSE IF ~partial /\ "faculty" \notin DOMAIN data
       THEN /\ Send(400, "faculty: This field is required.")
            /\ UNCHANGED availabilities
       ELSE IF "faculty" \in DOMAIN data /\ data.faculty \notin DOMAIN user_type
       THEN /\ Send(400, "faculty: Invalid pk - object does not exist.")
            /\ UNCHANGED availabilities
       ELSE IF ~partial /\ "candidate_section" \notin DOMAIN data
       THEN /\ Send(400, "candidate_section: This field is required.")
            /\ UNCHANGED availabilities
       ELSE IF "candidate_section" \in DOMAIN data
               /\ data.candidate_section \notin DOMAIN sections
       THEN /\ Send(400, "candidate_section: Invalid pk - object does not exist.")
            /\ UNCHANGED availabilities
       ELSE /\ availabilities' = [availabilities EXCEPT
                                     ![pk] = AvailabilityUpdated(@, data)]
            /\ Send(200, "")
    /\ UNCHANGED <<user_type, sections, slot_vars, req, extra_vars, form_vars>>

IntervalLists ==
    {<<>>, <<[start_time |-> 2, end_time |-> 3]>>,
     <<[start_time |-> 2, end_time |-> 3], [start_time |-> 3, end_time |-> 3]>>}

AvailabilityFields ==
    {[notes |-> "Updated notes"]}
        \cup {[candidate_section |-> c, notes |-> "Updated notes"] : c \in {1, 2}}
        \cup {[faculty |-> f, candidate_section |-> 1] : f \in {1, 2, 5}}

AvailabilityPayloads ==
    AvailabilityFields
        \cup {d @@ [time_slots |-> ts] : d \in AvailabilityFields, ts \in IntervalLists}

AvailabilityUpdateRequest ==
    \E u \in Users, pk \in 1..3, partial \in BOOLEAN, data \in AvailabilityPayloads :
        AvailabilityUpdate(u, pk, partial, data)

NextAvail ==
    \/ AvailabilityUpdateRequest
    \/ SlotImportRequest
    \/ ImportRecord(1)
    \/ ImportCreateSlot(1)
    \/ ImportCreateAttendee(1)
    \/ ImportReturn(1)

SpecAvail == Init /\ [][NextAvail]_vars

\* C25: an update of an existing FacultyAvailability that carries a time_slots
\* list replaces the availability's time slots: afterwards it owns exactly one
\* AvailabilityTimeSlot per submitted interval, with the submitted start and
\* end times, and none of its previous intervals.
C25_UpdateReplacesTimeSlots ==
    [][\A u \in Users, pk \in 1..3, partial \in BOOLEAN, data \in AvailabilityPayloads :
          /\ "time_slots" \in DOMAIN data
          /\ AvailabilityUpdate(u, pk, partial, data)
          /\ response'.status = 200
          => availabilities'[pk].time_slots = data.time_slots
      ]_vars

(***************************************************************************)
(* SessionTimeSlotViewSet.create by every kind of user.                    *)
(* IsAdminOrFacultyOrSectionOwner.has_permission lets every authenticated  *)
(* user through; CreateModelMixin.create calls neither get_object nor      *)
(* check_object_permissions, so has_object_permission is not evaluated.    *)
(***************************************************************************)
AnyoneCreateRequest ==
    \E u \in DOMAIN user_type, data \in SlotCreatePayloads :
        /\ next_slot_id <= MaxSlots
        /\ CreateTimeSlot(1, u, data)

NextCreate ==
    \/ AnyoneCreateRequest
    \/ RoleChangeRequest

SpecCreate == Init /\ [][NextCreate]_vars

\* C26: a time-slot create request is accepted only if the caller is admin,
\* superadmin or faculty, or is the candidate of the CandidateSection named in
\* the payload, so a candidate who does not own that section cannot create a
\* slot in it.
C26_CreateOnlyByStaffOrOwner ==
    [][\A u \in DOMAIN user_type, data \in SlotCreatePayloads :
          /\ CreateTimeSlot(1, u, data)
          /\ response'.status = 201
          => has_object_permission(u, "POST", data.candidate_section, NoObj)
      ]_vars

(***************************************************************************)
(* Register requests of two workers on the last open seat.                 *)
(***************************************************************************)
\* worker p takes the step that leaves program point pc
Leaves(p, pc) == req[p].pc = pc /\ req'[p] # req[p]

PassedIsFull(p) ==
    Leaves(p, "register_is_full") /\ req'[p].pc = "register_exists"
        => NumAttendees(req[p].obj.id) < time_slots[req[p].obj.id].max_attendees

InsertIgnoresCapacity(p) ==
    (/\ Leaves(p, "register_create")
     /\ ~ \E a \in DOMAIN attendees :
             attendees[a].time_slot = req[p].obj.id /\ attendees[a].user = req[p].user)
        => /\ response' = Resp(201, "")
           /\ \A s \in DOMAIN time_slots :
                 s = req[p].obj.id => NumAttendees(s)' = NumAttendees(s) + 1

OverbookedByInsert(s) ==
    (/\ NumAttendees(s) <= time_slots[s].max_attendees
     /\ NumAttendees(s)' > time_slots'[s].max_attendees)
        => /\ NumAttendees(s) = time_slots[s].max_attendees
           /\ \E p \in Procs :
                 \/ /\ Leaves(p, "register_create")
                    /\ req[p].obj.id = s
                    /\ \A a \in DOMAIN attendees :
                          attendees[a].time_slot = s => attendees[a].user # req[p].user
                 \/ Leaves(p, "import_attendee")

\* C27: when register requests of two workers interleave, a request passes
\* the is_full check only while the slot has an open seat, its later INSERT
\* is made without looking at the capacity again, and a slot gets more rows
\* than max_attendees only by such an INSERT of a user other than the ones
\* registered (or by the INSERT of the faculty row of an import); so two
\* different non-candidate users who both pass the check before either
\* inserts overbook the last seat.
C27_OverbookedByStaleCheck ==
    [][/\ \A p \in Procs : PassedIsFull(p)
       /\ \A p \in Procs : InsertIgnoresCapacity(p)
       /\ \A s \in DOMAIN time_slots : OverbookedByInsert(s)
      ]_vars

\* slot 1 has one seat and two rows, of two different users who are not
\* candidates
C27_Witness ==
    /\ time_slots[1].max_attendees = 1
    /\ \E a, b \in DOMAIN attendees :
          /\ attendees[a].time_slot = 1
          /\ attendees[b].time_slot = 1
          /\ attendees[a].user # attendees[b].user
          /\ user_type[attendees[a].user] # "candidate"
          /\ user_type[attendees[b].user] # "candidate"

(***************************************************************************)
(* FormSubmissionViewSet.create, one database operation at a time, for     *)
(* workers whose requests interleave: is_valid(), then the two queries of  *)
(* perform_create, then the query and the INSERT of serializer.create.     *)
(***************************************************************************)
SubmitVars == <<user_type, sections, availabilities, slot_vars, extra_vars>>

\* serializer.is_valid(raise_exception=True): the form pk, validate_answers
SubmitIsValid(p, u, data) ==
    /\ req[p].pc = "idle"
    /\ LET checked == validate_answers(data.form, data.answers)
       IN  IF data.form \notin DOMAIN forms
           THEN Reply(p, 400, "form: Invalid pk - object does not exist.")
           ELSE IF checked.status # 0
           THEN Reply(p, checked.status, checked.error)
           ELSE Goto(p, [Idle EXCEPT !.pc = "submit_assigned", !.user = u,
                            !.data = [form |-> data.form, answers |-> data.answers,
                                      is_completed |->
                                          DictGet(data, "is_completed", FALSE)]])
    /\ UNCHANGED <<SubmitVars, form_vars>>

\* perform_create: form.assigned_to.filter(id=user.id).exists()
SubmitAssigned(p) ==
    /\ req[p].pc = "submit_assigned"
    /\ IF req[p].user \notin forms[req[p].data.form].assigned_to
       THEN Reply(p, 400, "You are not assigned to this form")
       ELSE Goto(p, [req[p] EXCEPT !.pc = "submit_view_check"])
    /\ UNCHANGED <<SubmitVars, form_vars>>

\* a perform_create without its query for a completed submission
SubmitViewCheckSkipped(p) ==
    /\ req[p].pc = "submit_view_check"
    /\ Goto(p, [req[p] EXCEPT !.pc = "submit_serializer_check"])
    /\ UNCHANGED <<SubmitVars, form_vars>>

\* perform_create: FormSubmission.objects.filter(form_id=form_id,
\* submitted_by=user, is_completed=True).exists()
SubmitViewCheck(p) ==
    /\ req[p].pc = "submit_view_check"
    /\ IF HasCompleted(req[p].user, req[p].data.form)
       THEN Reply(p, 400, "You have already submitted this form")
       ELSE Goto(p, [req[p] EXCEPT !.pc = "submit_serializer_check"])
    /\ UNCHANGED <<SubmitVars, form_vars>>

\* FormSubmissionSerializer.create: the same query again
SubmitSerializerCheck(p) ==
    /\ req[p].pc = "submit_serializer_check"
    /\ IF HasCompleted(req[p].user, req[p].data.form)
       THEN Reply(p, 400, "You have already submitted this form")
       ELSE Goto(p, [req[p] EXCEPT !.pc = "submit_insert"])
    /\ UNCHANGED <<SubmitVars, form_vars>>

\* super().create(validated_data): FormSubmission.save(), the INSERT
SubmitInsert(p) ==
    /\ req[p].pc = "submit_insert"
    /\ submissions' = submissions @@ (next_submission_id :>
           FormSubmissionSave(
               [id |-> next_submission_id, form |-> req[p].data.form,
                submitted_by |-> req[p].user, answers |-> req[p].data.answers,
                is_completed |-> req[p].data.is_completed,
                form_version |-> EmptyVersion]))
    /\ next_submission_id' = next_submission_id + 1
    /\ Reply(p, 201, "")
    /\ UNCHANGED <<SubmitVars, is_staff, forms, form_fields, form_field_options,
                   next_form_id, next_field_id, next_option_id>>

SubmitRequest(p) ==
    \E u \in SubmissionUsers, data \in SubmissionPayloads :
        /\ "form" \in DOMAIN data
        /\ SubmitIsValid(p, u, data)

NextSubmit ==
    \/ AssignedFormCreateRequest
    \/ \E p \in Procs :
          \/ SubmitRequest(p)
          \/ SubmitAssigned(p)
          \/ SubmitViewCheck(p)
          \/ SubmitSerializerCheck(p)
          \/ next_submission_id <= MaxSubmissionId /\ SubmitInsert(p)

SpecSubmit == InitOneSeat /\ [][NextSubmit]_vars

PassedCompletedCheck(p, pc, next) ==
    Leaves(p, pc) /\ req'[p].pc = next
        => CompletedOf(req[p].user, req[p].data.form) = {}

InsertWithoutCheck(p) ==
    Leaves(p, "submit_insert")
        => /\ response' = Resp(201, "")
           /\ \E b \in DOMAIN submissions' \ DOMAIN submissions :
                 /\ submissions'[b].form = req[p].data.form
                 /\ submissions'[b].submitted_by = req[p].user
                 /\ submissions'[b].is_completed = req[p].data.is_completed

\* C28: when two form-submission create requests interleave, each passes the
\* two existing-completed-submission checks only while the (form, user) pair
\* has no completed submission, and its INSERT is made whatever rows exist by
\* then (no unique constraint refuses it); so two requests of one user for
\* one form, both with is_completed = true, that pass the checks before
\* either inserts leave two completed submissions of the pair.
C28_StaleCompletedCheck ==
    [][\A p \in Procs :
          /\ PassedCompletedCheck(p, "submit_view_check", "submit_serializer_check")
          /\ PassedCompletedCheck(p, "submit_serializer_check", "submit_insert")
          /\ InsertWithoutCheck(p)
      ]_vars

\* a user has two completed submissions of one form
C28_Witness ==
    \E u \in SubmissionUsers, f \in DOMAIN forms : Cardinality(CompletedOf(u, f)) = 2

(***************************************************************************)
(* import_slots requests of two workers for the availabilities of one      *)
(* section. Each handler reads the section with its list when it loads the *)
(* availability and writes the whole list back in ImportRecord.            *)
(***************************************************************************)
ImportsRequest(p) ==
    \E pk \in 1..2 : ImportGetObject(p, 2, pk)

NextImports ==
    \E p \in Procs :
        \/ ImportsRequest(p)
        \/ ImportRecord(p)
        \/ next_slot_id <= MaxImported /\ ImportCreateSlot(p)
        \/ ImportCreateAttendee(p)
        \/ ImportReturn(p)

SpecImports == InitOneSeat /\ [][NextImports]_vars

\* C29: a section's imported_availability_ids is append-only: an availability
\* id that has been recorded is in the list in every later state, also when
\* import_slots requests for two availabilities of the section interleave.
C29_ImportedIdsAppendOnly ==
    [][\A c \in DOMAIN sections, a \in DOMAIN availabilities :
          InSeq(a, sections[c].imported_availability_ids)
              => InSeq(a, sections'[c].imported_availability_ids)
      ]_vars

(***************************************************************************)
(* UserViewSet.update_role and destroy, one database operation at a time,  *)
(* for workers whose requests interleave. request.user and the object of   *)
(* get_object() are loaded when the request starts; the later checks read  *)
(* these copies, and only the superadmin count is queried again.           *)
(***************************************************************************)
RoleVars == <<sections, availabilities, slot_vars, extra_vars>>

\* user = self.get_object() and the checks made on the loaded rows
RoleGetObject(p, u, pk, data) ==
    /\ req[p].pc = "idle"
    /\ LET new_role == DictGet(data, "user_type", NoRole)
       IN  IF ~UserVisible(u, pk)
           THEN Reply(p, 404, "Not found.")
           ELSE IF ~is_superadmin(u)
           THEN Reply(p, 403, "Permission denied")
           ELSE IF new_role \notin USER_TYPE_CHOICES
           THEN Reply(p, 400, "Invalid user type")
           ELSE Goto(p, [Idle EXCEPT
                    !.pc = IF is_superadmin(pk) THEN "role_count" ELSE "role_save",
                    !.user = u, !.row = pk, !.new_role = new_role,
                    !.staff = is_staff[pk]])
    /\ UNCHANGED <<RoleVars, user_type, form_vars>>

\* superadmin_count = User.objects.filter(user_type='superadmin').count()
RoleCount(p) ==
    /\ req[p].pc = "role_count"
    /\ LET superadmin_count == Cardinality({w \in DOMAIN user_type : is_superadmin(w)})
       IN  IF superadmin_count = 1 /\ req[p].new_role # "superadmin"
           THEN Reply(p, 400, "Cannot change role: This is the last superadmin user")
           ELSE IF req[p].row # req[p].user
           THEN Reply(p, 403, "Cannot change another superadmin's role")
           ELSE Goto(p, [req[p] EXCEPT !.pc = "role_save"])
    /\ UNCHANGED <<RoleVars, user_type, form_vars>>

\* user.user_type = new_role; user.save(): an UPDATE of the row, and an
\* INSERT of the loaded row when the UPDATE matches none
RoleSave(p) ==
    /\ req[p].pc = "role_save"
    /\ user_type' = IF req[p].row \in DOMAIN user_type
                    THEN [user_type EXCEPT ![req[p].row] = req[p].new_role]
                    ELSE user_type @@ (req[p].row :> req[p].new_role)
    /\ is_staff' = IF req[p].row \in DOMAIN is_staff
                   THEN is_staff
                   ELSE is_staff @@ (req[p].row :> req[p].staff)
    /\ Reply(p, 200, "")
    /\ UNCHANGED <<RoleVars, forms, form_fields, form_field_options, submissions,
                   next_form_id, next_field_id, next_option_id, next_submission_id>>

\* destroy: user = self.get_object() and the checks made on the loaded rows
DestroyGetObject(p, u, pk) ==
    /\ req[p].pc = "idle"
    /\ IF ~UserVisible(u, pk)
       THEN Reply(p, 404, "Not found.")
       ELSE IF ~is_superadmin(u)
       THEN Reply(p, 403, "Only superadmins can delete users")
       ELSE IF user_type[pk] = "superadmin"
       THEN Reply(p, 400, "Cannot delete superadmin users")
       ELSE IF pk = u
       THEN Reply(p, 400, "Cannot delete your own account")
       ELSE Goto(p, [Idle EXCEPT !.pc = "destroy_delete", !.user = u, !.row = pk])
    /\ UNCHANGED <<RoleVars, user_type, form_vars>>

\* super().destroy(): instance.delete() with its cascade
DestroyDelete(p) ==
    /\ req[p].pc = "destroy_delete"
    /\ DeleteRows({req[p].row}, {})
    /\ Reply(p, 204, "")

RoleCallers == {1, 4}
RoleTargets == {1, 3, 4}
RoleChoices == {[user_type |-> r] : r \in {"superadmin", "faculty"}}

RoleRequest(p) ==
    \E u \in RoleCallers \cap DOMAIN user_type, pk \in RoleTargets, data \in RoleChoices :
        RoleGetObject(p, u, pk, data)

DestroyRequest(p) ==
    \E u \in RoleCallers \cap DOMAIN user_type, pk \in RoleTargets :
        DestroyGetObject(p, u, pk)

NextRolesConc ==
    \E p \in Procs :
        \/ RoleRequest(p)
        \/ RoleCount(p)
        \/ RoleSave(p)
        \/ DestroyRequest(p)
        \/ DestroyDelete(p)

SpecRolesConc == InitOneSeat /\ [][NextRolesConc]_vars

\* C30: a superadmin exists initially, and at least one superadmin exists in
\* every reachable state under any interleaving of update_role and destroy
\* requests, two superadmins changing their own roles at once included.
C30_SuperadminAlways ==
    \E u \in DOMAIN user_type : is_superadmin(u)

====
